---- MODULE Spec2Model ----
(***************************************************************************)
(* Sims 4 save merger: the DBPF container codec (dbpf_parser.py) and the   *)
(* resource-level merge engine (merger.py).                                *)
(*                                                                         *)
(* The specifications share the definitions below; the first three are:    *)
(*   Spec          one Sims4SaveMerger object called any number of times   *)
(*                 (load_files and merge in any order, loads may raise);   *)
(*   SpecPipeline  the pipeline the callers run (cli.py, gui.py and the    *)
(*                 tests): a merger is constructed, load_files is called   *)
(*                 on it once and then merge once;                  *)
(*   SpecCodec     DBPFFile.save followed by DBPFFile.load on the bytes    *)
(*                 written, byte by byte.                                  *)
(* The others run one operation (the RefPack decoder, from_bytes, load,    *)
(* _parse_index, _build_index, to_bytes) on bounded inputs, or the         *)
(* pipeline on files chosen for one rule; each is introduced where it is   *)
(* defined.                                                                *)
(*                                                                         *)
(* 32-bit identifiers (type, group) are kept as their four bytes, most     *)
(* significant first, and 64-bit instance ids as eight bytes: they are     *)
(* only compared, packed and unpacked, never used in arithmetic.           *)
(***************************************************************************)
EXTENDS Integers, Sequences, FiniteSets, TLC

VARIABLES
    newer_file,     \* Sims4SaveMerger.newer_file: None or a DBPFFile
    older_file,     \* Sims4SaveMerger.older_file: None or a DBPFFile
    comparison,     \* Sims4SaveMerger._comparison: None or the dict of compare_files
    load_state,     \* history: how the most recent load_files call ended
    last,           \* history: the most recent call, its arguments and its outcome
    container,      \* SpecCodec: the in-memory DBPFFile that is saved
    file_bytes,     \* SpecCodec: the bytes save wrote to the path
    codec_last      \* SpecCodec history: the most recent save or load and its outcome

vars == <<newer_file, older_file, comparison, load_state, last,
          container, file_bytes, codec_last>>

mergerVars == <<newer_file, older_file, comparison, load_state, last>>
codecVars == <<container, file_bytes, codec_last>>

\* Python's None where an object is expected
None == [none |-> TRUE]

\* an optional set argument: None, or the set given
NoSet == [given |-> FALSE, keys |-> {}]
GivenSet(keys) == [given |-> TRUE, keys |-> keys]

\* no exception
NoExc == "no exception"

\* one call on the codec, as recorded in the history variable codec_last
CodecCall(op, raised, exc, file) ==
    [op |-> op, raised |-> raised, exc |-> exc, file |-> file]

-----------------------------------------------------------------------------
(* Resource keys and type tables                                           *)

\* merger.py:71-80
SIM_RELATED_TYPES ==
    { <<192, 219, 90, 231>>,    \* 0xC0DB5AE7 SimInfo
      <<182, 29, 230, 180>>,    \* 0xB61DE6B4 Household
      <<12, 119, 46, 39>>,      \* 0x0C772E27 RelationshipData
      <<59, 212, 84, 7>>,       \* 0x3BD45407 Situation
      <<0, 0, 0, 13>>,          \* 0x0000000D
      <<0, 0, 0, 15>>,          \* 0x0000000F
      <<0, 0, 0, 20>>,          \* 0x00000014
      <<0, 0, 0, 21>> }         \* 0x00000015

\* merger.py:83-88
WORLD_RELATED_TYPES ==
    { <<232, 130, 210, 47>>,    \* 0xE882D22F Lot
      <<220, 149, 207, 26>>,    \* 0xDC95CF1A Zone
      <<98, 236, 197, 154>>,    \* 0x62ECC59A ObjectData
      <<0, 0, 0, 6>> }          \* 0x00000006 Zone/Lot data

\* merger.py:224, the literal 0x00000006
TYPE_LOT_DATA == <<0, 0, 0, 6>>

\* dbpf_parser.py:151, a type in neither table (SimData, 0x220557DA)
TYPE_SIMDATA == <<34, 5, 87, 218>>

ZeroGroup == <<0, 0, 0, 0>>

\* IndexEntry.key: (type_id, group_id, instance_id)
Key(type_id, group_id, instance_id) == <<type_id, group_id, instance_id>>

Instance(n) == <<0, 0, 0, 0, 0, 0, 0, n>>

-----------------------------------------------------------------------------
(* In-memory model used by the merger specifications                       *)
(*                                                                         *)
(* merger.py and compare_files read Resource.data only through len() and   *)
(* ==; a payload is therefore kept as its length and an identifier that    *)
(* tells apart different byte strings of one length.  A DBPFFile is its    *)
(* header and its resources dict (key -> payload).  The dict's insertion   *)
(* order is not kept here: the merger only looks keys up, tests membership *)
(* and builds sets and counts while iterating.                             *)

Data(n, i) == [len |-> n, id |-> i]

DataLen(d) == d.len

Keys(file) == DOMAIN file.resources

\* DBPFFile.__init__ without a path (dbpf_parser.py:163-167)
EmptyResources == [k \in {} |-> None]

NewDBPFFile == [header |-> None, resources |-> EmptyResources]

\* the header DBPFHeader.from_bytes returns for a file written by save:
\* version 2.1 (dbpf_parser.py:569-570)
LoadedHeader == [major_version |-> 2, minor_version |-> 1]

\* dict assignment d[k] = v
Put(d, k, v) == [x \in (DOMAIN d) \cup {k} |-> IF x = k THEN v ELSE d[x]]

\* mutant of compare_files: every common key is reported as 'same'
compare_files_nocheck(file1, file2) ==
    LET keys1 == Keys(file1)
        keys2 == Keys(file2)
    IN [only_in_file1 |-> keys1 \ keys2,
        only_in_file2 |-> keys2 \ keys1,
        in_both       |-> keys1 \cap keys2,
        same          |-> keys1 \cap keys2,
        different     |-> {}]

\* dbpf_parser.py:675-708
compare_files(file1, file2) ==
    LET keys1 == Keys(file1)
        keys2 == Keys(file2)
        only_in_1 == keys1 \ keys2
        only_in_2 == keys2 \ keys1
        in_both == keys1 \cap keys2
        different == {k \in in_both : file1.resources[k] # file2.resources[k]}
        same == {k \in in_both : ~(file1.resources[k] # file2.resources[k])}
    IN [only_in_file1 |-> only_in_1,
        only_in_file2 |-> only_in_2,
        in_both       |-> in_both,
        same          |-> same,
        different     |-> different]

\* a lookup self.newer_file.resources[key] / self.older_file.resources[key]
\* for a key of cmp['different'] raises KeyError when the key is absent
DifferentLookupFails(newer, older, cmp) ==
    \E k \in cmp.different : k \notin Keys(newer) \/ k \notin Keys(older)

\* mutant of IsEmptyResource: the two sizes are swapped
IsEmptyResourceSwapped(key, newer_size, older_size) ==
    LET type_id == key[1] IN
    IF type_id = TYPE_LOT_DATA
    THEN \/ newer_size > older_size * 10
         \/ (older_size < 2000 /\ newer_size > older_size * 5)
    ELSE IF type_id \in WORLD_RELATED_TYPES
    THEN older_size < 100 /\ newer_size > older_size * 5
    ELSE newer_size > 1000 /\ older_size * 20 < newer_size

\* the per-key test of _detect_empty_resources (merger.py:216-239);
\* newer_size < older_size * 0.05 is newer_size * 20 < older_size on integers
IsEmptyResource(key, newer_size, older_size) ==
    LET type_id == key[1] IN
    IF type_id = TYPE_LOT_DATA
    THEN \/ older_size > newer_size * 10
         \/ (newer_size < 2000 /\ older_size > newer_size * 5)
    ELSE IF type_id \in WORLD_RELATED_TYPES
    THEN newer_size < 100 /\ older_size > newer_size * 5
    ELSE older_size > 1000 /\ newer_size * 20 < older_size

\* mutant of _detect_empty_resources: every key whose sizes differ is flagged
_detect_empty_resources_any_size(newer, older, cmp) ==
    {key \in cmp.different :
        DataLen(newer.resources[key]) # DataLen(older.resources[key])}

\* merger.py:200-241 (for a comparison that is set)
_detect_empty_resources(newer, older, cmp) ==
    {key \in cmp.different :
        IsEmptyResource(key, DataLen(newer.resources[key]),
                             DataLen(older.resources[key]))}

\* mutant of _get_larger_resources: the comparison is inverted
_get_larger_resources_inverted(newer, older, cmp) ==
    {key \in cmp.different :
        DataLen(older.resources[key]) < DataLen(newer.resources[key])}

\* merger.py:243-262 (for a comparison that is set)
_get_larger_resources(newer, older, cmp) ==
    {key \in cmp.different :
        DataLen(older.resources[key]) > DataLen(newer.resources[key])}

Strategies ==
    {"NEWER_BASE_ADD_MISSING", "OLDER_BASE_ADD_NEWER", "SMART_MERGE",
     "PREFER_LARGER", "WORKING_BASE", "MANUAL_SELECT"}

\* mutant of UseOlderKeys: the larger older version is taken under every strategy
UseOlderKeysAnyStrategy(strategy, newer, older, cmp) ==
    _get_larger_resources(newer, older, cmp)

\* merger.py:383-396: which conflicting keys the strategy takes from older
UseOlderKeys(strategy, newer, older, cmp) ==
    IF strategy = "SMART_MERGE" THEN _detect_empty_resources(newer, older, cmp)
    ELSE IF strategy = "PREFER_LARGER" THEN _get_larger_resources(newer, older, cmp)
    ELSE {}

-----------------------------------------------------------------------------
(* Sims4SaveMerger.merge                                                   *)

Overlay(base, f) ==
    [k \in (DOMAIN base) \cup (DOMAIN f) |-> IF k \in DOMAIN f THEN f[k] ELSE base[k]]

Restrict(f, ks) == [k \in ks |-> f[k]]

\* mutant of MergedObject: merge fills the newer file's own dict
MergedObjectAliased(newer) == [object |-> "newer_file", resources |-> newer.resources]

\* merger.py:374 merged = DBPFFile(): a new object with an empty dict
MergedObject(newer) == [object |-> "new", resources |-> NewDBPFFile.resources]

\* mutant of ExplicitOverride: the caller's set is not looked at
ExplicitOverrideIgnored(resources_from_older, key) == FALSE

\* merger.py:461-462: if resources_from_older and key in resources_from_older
ExplicitOverride(resources_from_older, key) ==
    /\ resources_from_older.given
    /\ resources_from_older.keys # {}
    /\ key \in resources_from_older.keys

\* mutant of ToAdd: the caller's subset is ignored
ToAddAll(resources_to_add, cmp) == cmp.only_in_file2

\* merger.py:479-484
ToAdd(resources_to_add, cmp) ==
    IF resources_to_add.given
    THEN resources_to_add.keys \cap cmp.only_in_file2
    ELSE cmp.only_in_file2

\* merger.py:383-396 and 456-490: every strategy but WORKING_BASE
MergeDefault(strategy, resources_to_add, resources_from_older, newer, older, cmp, start) ==
    IF strategy \in {"SMART_MERGE", "PREFER_LARGER"} /\ DifferentLookupFails(newer, older, cmp)
    THEN [raised |-> TRUE, exc |-> "KeyError", progress |-> <<0, 10>>]
    ELSE
    LET use_older_keys == UseOlderKeys(strategy, newer, older, cmp)
        from_older_keys ==
            {key \in Keys(newer) :
                /\ (ExplicitOverride(resources_from_older, key) \/ key \in use_older_keys)
                /\ key \in Keys(older)}
        after_loop ==
            Overlay(start,
                    [key \in Keys(newer) |->
                        IF key \in from_older_keys THEN older.resources[key]
                                                   ELSE newer.resources[key]])
        to_add == ToAdd(resources_to_add, cmp)
        added == {key \in to_add : key \in Keys(older)}
        strategy_warning ==
            IF strategy = "SMART_MERGE" /\ use_older_keys # {}
            THEN << <<"Smart merge", Cardinality(use_older_keys)>> >>
            ELSE IF strategy = "PREFER_LARGER" /\ use_older_keys # {}
            THEN << <<"Prefer larger", Cardinality(use_older_keys)>> >>
            ELSE <<>>
    IN [raised |-> FALSE,
        resources |-> Overlay(after_loop, Restrict(older.resources, added)),
        source |-> [key \in (DOMAIN start) \cup Keys(newer) \cup added |->
                        IF key \in from_older_keys \cup added THEN "older" ELSE "newer"],
        resources_from_newer |-> Cardinality(Keys(newer) \ from_older_keys),
        resources_from_older |-> Cardinality(from_older_keys) + Cardinality(added),
        warnings |-> strategy_warning,
        progress |-> <<0, 10, 50, 80>>]

\* mutant of MergeWorkingBase: every key of newer replaces older's version
MergeWorkingBaseAllNewer(newer, older, cmp, start) ==
    LET after_older == Overlay(start, older.resources)
        after_newer == Overlay(after_older, newer.resources)
    IN [raised |-> FALSE,
        resources |-> after_newer,
        source |-> [key \in DOMAIN after_newer |->
                        IF key \in Keys(newer) THEN "newer" ELSE "older"],
        resources_from_newer |-> Cardinality(Keys(newer)),
        resources_from_older |-> Cardinality(Keys(older)) - Cardinality(Keys(newer)),
        warnings |-> << <<"Working base">>, <<"Updated", Cardinality(Keys(newer))>> >>,
        progress |-> <<0, 10, 80>>]

\* merger.py:398-428: WORKING_BASE
MergeWorkingBase(newer, older, cmp, start) ==
    LET after_older == Overlay(start, older.resources)
        sim_keys == {key \in Keys(newer) : key[1] \in SIM_RELATED_TYPES}
        after_sim == Overlay(after_older, Restrict(newer.resources, sim_keys))
        only_newer == {key \in cmp.only_in_file1 : key \notin DOMAIN after_sim}
    IN IF \E key \in only_newer : key \notin Keys(newer)
       THEN [raised |-> TRUE, exc |-> "KeyError", progress |-> <<0, 10>>]
       ELSE [raised |-> FALSE,
             resources |-> Overlay(after_sim, Restrict(newer.resources, only_newer)),
             source |-> [key \in (DOMAIN after_sim) \cup only_newer |->
                            IF key \in sim_keys \cup only_newer THEN "newer" ELSE "older"],
             resources_from_newer |-> Cardinality(sim_keys) + Cardinality(only_newer),
             resources_from_older |-> Cardinality(Keys(older)) - Cardinality(sim_keys),
             warnings |-> << <<"Working base">>, <<"Updated", Cardinality(sim_keys)>> >>,
             progress |-> <<0, 10, 80>>]

\* merger.py:371-428 and 456-490: the merged dict, the counts and the messages
MergeBody(strategy, resources_to_add, resources_from_older, newer, older, cmp) ==
    LET start == MergedObject(newer).resources IN
    IF strategy = "WORKING_BASE"
    THEN MergeWorkingBase(newer, older, cmp, start)
    ELSE MergeDefault(strategy, resources_to_add, resources_from_older, newer, older, cmp, start)

\* merger.py:36-44
MergeResult(success, output_file, from_newer, from_older, total, errors, warnings) ==
    [success |-> success, output_file |-> output_file,
     resources_from_newer |-> from_newer, resources_from_older |-> from_older,
     resources_total |-> total, errors |-> errors, warnings |-> warnings]

\* one call on the merger, as recorded in the history variable last
Call(op, outcome, exc, args, merged, source, result, written, progress) ==
    [op |-> op, outcome |-> outcome, exc |-> exc, args |-> args,
     merged |-> merged, source |-> source, result |-> result, written |-> written,
     progress |-> progress]

NoArgs == [strategy |-> "", resources_to_add |-> NoSet, resources_from_older |-> NoSet,
           backup |-> ""]

MergeArgs(strategy, resources_to_add, resources_from_older, backup) ==
    [strategy |-> strategy, resources_to_add |-> resources_to_add,
     resources_from_older |-> resources_from_older, backup |-> backup]

-----------------------------------------------------------------------------
(* The DBPF codec, byte by byte (dbpf_parser.py)                           *)
(*                                                                         *)
(* A byte string is a sequence of 0..255.  Here a DBPFFile keeps its       *)
(* resources dict as the sequence of its items in insertion order, each    *)
(* item a key and a Resource (entry, data).  Numeric fields (offsets,      *)
(* sizes, counts) are integers below 2^31.                                 *)

\* Python slice s[a:b] for 0 <= a, b
Slice(s, a, b) ==
    IF a >= Len(s) \/ b <= a THEN <<>>
    ELSE SubSeq(s, a + 1, IF b < Len(s) THEN b ELSE Len(s))

\* struct.unpack('<I', b)[0] of four bytes, as a number.  Numbers of 2^31
\* and above (top bit set) are kept as 2^31 - 1: they are only compared
\* with lengths and sizes far below that, never packed again
U32(b) ==
    IF b[4] >= 128 THEN 2147483647
    ELSE b[1] + 256 * b[2] + 65536 * b[3] + 16777216 * b[4]

\* mutant of UnpackId: the four bytes are read most significant first
UnpackIdBigEndian(b) == b

\* struct.unpack('<I', b)[0] of four bytes, as an identifier
UnpackId(b) == <<b[4], b[3], b[2], b[1]>>

\* struct.pack('<I', n) of a number
pack_u32(n) ==
    <<n % 256, (n \div 256) % 256, (n \div 65536) % 256, (n \div 16777216) % 256>>

\* struct.pack('<I', t) of an identifier
pack_id(t) == <<t[4], t[3], t[2], t[1]>>

Zeros(n) == [i \in 1..n |-> 0]

\* dbpf_parser.py:104-118
IndexEntry(type_id, group_id, instance_id, offset, file_size, mem_size, compressed) ==
    [type_id |-> type_id, group_id |-> group_id, instance_id |-> instance_id,
     offset |-> offset, file_size |-> file_size, mem_size |-> mem_size,
     compressed |-> compressed]

EntryKey(entry) == Key(entry.type_id, entry.group_id, entry.instance_id)

\* dbpf_parser.py:126-134
Resource(entry, data) == [entry |-> entry, data |-> data]

Item(key, resource) == [key |-> key, resource |-> resource]

ItemKeys(items) == {items[i].key : i \in 1..Len(items)}

\* dict lookup d[key], for a key that is present
ItemGet(items, key) ==
    items[CHOOSE i \in 1..Len(items) : items[i].key = key].resource

\* dict assignment d[key] = resource: a present key keeps its position
ItemPut(items, key, resource) ==
    IF key \in ItemKeys(items)
    THEN [i \in 1..Len(items) |->
            IF items[i].key = key THEN Item(key, resource) ELSE items[i]]
    ELSE Append(items, Item(key, resource))

\* mutant of HeaderError: the magic tag is not looked at
HeaderErrorNoMagic(data) ==
    IF Len(data) < 96 THEN "ValueError: Header te kort" ELSE NoExc

\* the two checks of from_bytes (dbpf_parser.py:39-44): the ValueError
\* raised, or NoExc
HeaderError(data) ==
    IF Len(data) < 96 THEN "ValueError: Header te kort"
    ELSE IF Slice(data, 0, 4) # <<68, 66, 80, 70>>
    THEN "ValueError: Ongeldig DBPF bestand"
    ELSE NoExc

\* mutant of IndexField: no fallback to the alternate location
IndexFieldPrimaryOnly(major_version, primary, alternate) ==
    IF major_version = 2 THEN primary ELSE alternate

\* index_offset and index_size (dbpf_parser.py:55-73): for major version 2
\* the field at 64 (68), or the one at 40 (44) if that is 0; else the one
\* at 40 (44)
IndexField(major_version, primary, alternate) ==
    IF major_version = 2
    THEN (IF primary = 0 THEN alternate ELSE primary)
    ELSE alternate

\* DBPFHeader.from_bytes (dbpf_parser.py:36-83)
DBPFHeader_from_bytes(data) ==
    IF HeaderError(data) # NoExc THEN [raised |-> TRUE, exc |-> HeaderError(data)]
    ELSE
    LET major_version == U32(Slice(data, 4, 8))
        minor_version == U32(Slice(data, 8, 12))
        index_type == U32(Slice(data, 32, 36))
        index_entry_count == U32(Slice(data, 36, 40))
    IN [raised |-> FALSE,
        header |-> [magic |-> Slice(data, 0, 4),
                    major_version |-> major_version,
                    minor_version |-> minor_version,
                    index_entry_count |-> index_entry_count,
                    index_offset |-> IndexField(major_version,
                                                U32(Slice(data, 64, 68)),
                                                U32(Slice(data, 40, 44))),
                    index_size |-> IndexField(major_version,
                                              U32(Slice(data, 68, 72)),
                                              U32(Slice(data, 44, 48))),
                    index_type |-> index_type]]

\* DBPFHeader.to_bytes (dbpf_parser.py:85-101): 96 zero bytes with the magic
\* tag, the two version numbers, the entry count at 36, the index offset at
\* 64 and the index size at 68 written over them
DBPFHeader_to_bytes(header) ==
    header.magic
       \o pack_u32(header.major_version) \o pack_u32(header.minor_version)
       \o Zeros(24)
       \o pack_u32(header.index_entry_count)
       \o Zeros(24)
       \o pack_u32(header.index_offset) \o pack_u32(header.index_size)
       \o Zeros(24)

\* _safe_unpack (dbpf_parser.py:238-243) succeeds
CanUnpack(data, offset) == offset + 4 <= Len(data)

\* one pass of the loop body of _parse_index_dbpf2 (dbpf_parser.py:296-336)
ParseEntryDbpf2(data, offset, consts) ==
    LET type_at == offset
        group_at == IF consts.const_type THEN type_at ELSE type_at + 4
        high_at == IF consts.const_group THEN group_at ELSE group_at + 4
        low_at == IF consts.const_instance_high THEN high_at ELSE high_at + 4
        fixed_end == low_at + 16
    IN IF fixed_end > Len(data) THEN [ok |-> FALSE]
       ELSE
       LET type_id == IF consts.const_type THEN consts.type_id
                      ELSE UnpackId(Slice(data, type_at, type_at + 4))
           group_id == IF consts.const_group THEN consts.group_id
                       ELSE UnpackId(Slice(data, group_at, group_at + 4))
           instance_high == IF consts.const_instance_high THEN consts.instance_high
                            ELSE UnpackId(Slice(data, high_at, high_at + 4))
           instance_low == UnpackId(Slice(data, low_at, low_at + 4))
           entry_offset == U32(Slice(data, low_at + 4, low_at + 8))
           raw == Slice(data, low_at + 8, low_at + 12)
           compressed == raw[4] >= 128
           file_size == U32(<<raw[1], raw[2], raw[3], raw[4] % 128>>)
           mem_size == U32(Slice(data, low_at + 12, low_at + 16))
       IN IF compressed /\ ~CanUnpack(data, fixed_end) THEN [ok |-> FALSE]
          ELSE [ok |-> TRUE,
                offset |-> IF compressed THEN fixed_end + 4 ELSE fixed_end,
                entry |-> IndexEntry(type_id, group_id, instance_high \o instance_low,
                                     entry_offset, file_size, mem_size, compressed)]

RECURSIVE ParseEntriesDbpf2(_, _, _, _, _)
\* the loop of _parse_index_dbpf2: stops at the first entry that does not fit
ParseEntriesDbpf2(data, offset, remaining, consts, entries) ==
    IF remaining = 0 THEN entries
    ELSE LET r == ParseEntryDbpf2(data, offset, consts)
         IN IF ~r.ok THEN entries
            ELSE ParseEntriesDbpf2(data, r.offset, remaining - 1, consts,
                                   Append(entries, r.entry))

\* dbpf_parser.py:270-342, called with len(data) >= 4
_parse_index_dbpf2(data, count) ==
    LET flags == data[1]
        const_type == flags % 2 = 1
        const_group == (flags \div 2) % 2 = 1
        const_instance_high == (flags \div 4) % 2 = 1
        type_at == 4
        group_at == IF const_type THEN type_at + 4 ELSE type_at
        high_at == IF const_group THEN group_at + 4 ELSE group_at
        start == IF const_instance_high THEN high_at + 4 ELSE high_at
    IN IF start > Len(data) THEN [raised |-> TRUE, entries |-> <<>>]
       ELSE [raised |-> FALSE,
             entries |->
                ParseEntriesDbpf2(data, start, count,
                    [const_type |-> const_type, const_group |-> const_group,
                     const_instance_high |-> const_instance_high,
                     type_id |-> IF const_type
                                 THEN UnpackId(Slice(data, type_at, type_at + 4))
                                 ELSE <<0, 0, 0, 0>>,
                     group_id |-> IF const_group
                                  THEN UnpackId(Slice(data, group_at, group_at + 4))
                                  ELSE <<0, 0, 0, 0>>,
                     instance_high |-> IF const_instance_high
                                       THEN UnpackId(Slice(data, high_at, high_at + 4))
                                       ELSE <<0, 0, 0, 0>>],
                    <<>>)]

\* one entry of _parse_index_fixed (dbpf_parser.py:370-391)
ParseEntryFixed(data, base) ==
    LET raw == Slice(data, base + 20, base + 24)
        q == Slice(data, base + 8, base + 16)
    IN IndexEntry(UnpackId(Slice(data, base, base + 4)),
                  UnpackId(Slice(data, base + 4, base + 8)),
                  <<q[8], q[7], q[6], q[5], q[4], q[3], q[2], q[1]>>,
                  U32(Slice(data, base + 16, base + 20)),
                  U32(<<raw[1], raw[2], raw[3], raw[4] % 128>>),
                  U32(Slice(data, base + 24, base + 28)),
                  raw[4] >= 128)

\* dbpf_parser.py:344-396, called with len(data) >= 4
_parse_index_fixed(data, count) ==
    LET first == Slice(data, 0, 4)
        is_flags == first[1] < 8 /\ first[2] = 0 /\ first[3] = 0 /\ first[4] = 0
        flags == first[1]
        offset == IF is_flags
                  THEN 4 + 4 * (flags % 2) + 4 * ((flags \div 2) % 2)
                         + 4 * ((flags \div 4) % 2)
                  ELSE 0
        remaining == Len(data) - offset
        fitting == IF remaining < 0 THEN 0 ELSE remaining \div 32
        actual_count == IF count < fitting THEN count ELSE fitting
    IN [i \in 1..actual_count |-> ParseEntryFixed(data, offset + (i - 1) * 32)]

\* mutant of _parse_index: the fixed layout is tried first
_parse_index_fixed_first(data, count) ==
    IF count = 0 \/ Len(data) < 4 THEN <<>>
    ELSE IF _parse_index_fixed(data, count) # <<>>
    THEN _parse_index_fixed(data, count)
    ELSE _parse_index_dbpf2(data, count).entries

\* dbpf_parser.py:245-268; an exception of either attempt is caught there
_parse_index(data, count) ==
    IF count = 0 \/ Len(data) < 4 THEN <<>>
    ELSE LET primary == _parse_index_dbpf2(data, count)
         IN IF ~primary.raised /\ primary.entries # <<>>
            THEN primary.entries
            ELSE _parse_index_fixed(data, count)

\* the value Python raises IndexError for, in place of a byte
IndexError == 0 - 1

\* data[p]
Byte(data, p) == IF p >= 0 /\ p < Len(data) THEN data[p + 1] ELSE IndexError

\* the check "pos < len(data)" that guards every read of the input
\* (dbpf_parser.py:431, 439, 445, 457, 459, 461, 466, 479, 488, 501, 509)
InData(data, pos) == pos < Len(data)

RECURSIVE Literals(_, _, _, _)
\* the for-loops "for _ in range(num_literal): if pos < len(data): ..."
\* (dbpf_parser.py:444-447 and alike): the state after the loop
Literals(data, pos, num_literal, result) ==
    IF num_literal = 0 \/ ~InData(data, pos)
    THEN [pos |-> pos, result |-> result, raised |-> FALSE]
    ELSE IF Byte(data, pos) = IndexError
    THEN [pos |-> pos, result |-> result, raised |-> TRUE]
    ELSE Literals(data, pos + 1, num_literal - 1, Append(result, Byte(data, pos)))

\* the copy loops (dbpf_parser.py:451-453 and alike):
\*     for i in range(copy_length):
\*         if start + i >= 0 and start + i < len(result):
\*             result.append(result[start + i])
\* start is below len(result) and every copy lengthens result by one, so
\* the passes from the first one with start + i >= 0 on all copy, each the
\* byte that lies (len(result) - start - first) places before the end
CopyLoop(result, start, copy_length) ==
    LET first == IF start < 0 THEN 0 - start ELSE 0
        copies == IF Len(result) = 0 \/ copy_length <= first THEN 0
                  ELSE copy_length - first
        period == Len(result) - (start + first)
    IN result \o [i \in 1..copies |-> result[start + first + ((i - 1) % period) + 1]]

\* the literals and then the copy of one control byte
LiteralsThenCopy(data, pos, num_literal, result, copies, copy_offset, copy_length) ==
    LET lit == Literals(data, pos, num_literal, result)
    IN IF lit.raised \/ ~copies THEN lit
       ELSE [pos |-> lit.pos, raised |-> FALSE,
             result |-> CopyLoop(lit.result, Len(lit.result) - copy_offset - 1,
                                 copy_length)]

\* a control byte that is followed by operand or literal bytes in a whole stream
NeedsMore(ctrl) == ctrl < 252 \/ ctrl % 4 > 0

\* one pass of the while loop of _decompress_refpack (dbpf_parser.py:432-511);
\* cut: the control byte was the last byte of the input although more follow it
RefPackStep(data, pos0, result) ==
    LET ctrl == Byte(data, pos0)
        pos == pos0 + 1
        Failed == [pos |-> pos, result |-> result, raised |-> TRUE, cut |-> FALSE]
        Done(r) == [pos |-> r.pos, result |-> r.result, raised |-> r.raised,
                    cut |-> pos = Len(data) /\ NeedsMore(ctrl)]
    IN IF ctrl = IndexError THEN Failed
       ELSE IF ctrl < 128
       THEN LET read == InData(data, pos)
                operand == IF read THEN Byte(data, pos) ELSE 0
                num_literal == ctrl % 4
                copy_offset == ((ctrl \div 32) % 4) * 256 + operand
                pos1 == IF read THEN pos + 1 ELSE pos
                copy_length == ((ctrl \div 4) % 8) + 3
            IN IF operand = IndexError THEN Failed
               ELSE Done(LiteralsThenCopy(data, pos1, num_literal, result,
                                          copy_offset > 0, copy_offset, copy_length))
       ELSE IF ctrl < 192
       THEN LET read1 == InData(data, pos)
                operand1 == IF read1 THEN Byte(data, pos) ELSE 0
                num_literal == operand1 \div 64
                copy_length == (ctrl % 64) + 4
                pos1 == pos + 1
                read2 == InData(data, pos1)
                operand2 == IF read2 THEN Byte(data, pos1) ELSE 0
                copy_offset == (operand1 % 64) * 256 + operand2
                pos2 == IF read2 THEN pos1 + 1 ELSE pos1
            IN IF operand1 = IndexError \/ operand2 = IndexError THEN Failed
               ELSE Done(LiteralsThenCopy(data, pos2, num_literal, result,
                                          TRUE, copy_offset, copy_length))
       ELSE IF ctrl < 224
       THEN LET read1 == InData(data, pos)
                operand1 == IF read1 THEN Byte(data, pos) ELSE 0
                num_literal == ctrl % 4
                copy_length == ((ctrl \div 4) % 4) * 256
                               + (IF read1 THEN operand1 + 5 ELSE 0)
                pos1 == IF read1 THEN pos + 1 ELSE pos
                read2 == InData(data, pos1 + 1)
                operand2 == IF read2 THEN Byte(data, pos1) ELSE 0
                operand3 == IF read2 THEN Byte(data, pos1 + 1) ELSE 0
                copy_offset == operand2 * 256 + operand3
                pos2 == IF read2 THEN pos1 + 2 ELSE pos1
            IN IF IndexError \in {operand1, operand2, operand3} THEN Failed
               ELSE Done(LiteralsThenCopy(data, pos2, num_literal, result,
                                          TRUE, copy_offset, copy_length))
       ELSE IF ctrl < 252
       THEN Done(Literals(data, pos, ((ctrl % 32) + 1) * 4, result))
       ELSE Done(Literals(data, pos, ctrl % 4, result))

RECURSIVE RefPackLoop(_, _, _, _, _)
\* the while loop of _decompress_refpack (dbpf_parser.py:431)
RefPackLoop(data, pos, result, target_size, cut) ==
    IF InData(data, pos) /\ Len(result) < target_size
    THEN LET r == RefPackStep(data, pos, result)
         IN IF r.raised
            THEN [raised |-> TRUE, exc |-> "IndexError", data |-> r.result, cut |-> r.cut]
            ELSE RefPackLoop(data, r.pos, r.result, target_size, r.cut)
    ELSE [raised |-> FALSE, exc |-> NoExc, data |-> result, cut |-> cut]

\* dbpf_parser.py:414-513, called with len(data) >= 1
_decompress_refpack(data, target_size) ==
    LET first_byte == data[1]
        pos == IF first_byte >= 128 THEN 5
               ELSE IF (first_byte \div 64) % 2 = 1 THEN 5
               ELSE 2
    IN RefPackLoop(data, pos, <<>>, target_size, FALSE)

\* zlib.decompress: a stream of the zlib format has a 2-byte header, at
\* least one deflate block and a 4-byte checksum; the byte strings handed
\* to it in this model are no such stream, for them it raises zlib.error
ZlibDecompress(data) ==
    [raised |-> TRUE, exc |-> "zlib.error", data |-> <<>>, cut |-> FALSE]

\* "return data": the input is handed back as it is
Returned(data) == [raised |-> FALSE, exc |-> NoExc, data |-> data, cut |-> FALSE]

\* dbpf_parser.py:398-412
_decompress(data, target_size) ==
    IF Len(data) < 2 THEN Returned(data)
    ELSE IF Slice(data, 0, 2) \in {<<120, 156>>, <<120, 218>>}
    THEN ZlibDecompress(data)
    ELSE IF Len(data) >= 5 /\ Slice(data, 0, 2) \in {<<16, 251>>, <<80, 251>>, <<144, 251>>}
    THEN _decompress_refpack(data, target_size)
    ELSE Returned(data)

\* mutant of LoadEntry: a record whose decompression fails is left out
LoadEntryDropsFailed(file_data, entry, items) ==
    IF entry.offset >= Len(file_data) THEN items
    ELSE
    LET raw_data == Slice(file_data, entry.offset, entry.offset + entry.file_size)
        d == _decompress(raw_data, entry.mem_size)
    IN IF Len(raw_data) = 0 THEN items
       ELSE IF entry.compressed /\ entry.file_size # entry.mem_size
       THEN (IF d.raised THEN items
             ELSE ItemPut(items, EntryKey(entry), Resource(entry, d.data)))
       ELSE ItemPut(items, EntryKey(entry), Resource(entry, raw_data))

\* one pass of the resource loop of load (dbpf_parser.py:213-236)
LoadEntry(file_data, entry, items) ==
    IF entry.offset >= Len(file_data) THEN items
    ELSE
    LET end_offset == IF entry.offset + entry.file_size < Len(file_data)
                      THEN entry.offset + entry.file_size ELSE Len(file_data)
        raw_data == Slice(file_data, entry.offset, end_offset)
    IN IF Len(raw_data) = 0 THEN items
       ELSE
       LET data == IF entry.compressed /\ entry.file_size # entry.mem_size
                   THEN LET d == _decompress(raw_data, entry.mem_size)
                        IN IF d.raised THEN raw_data ELSE d.data
                   ELSE raw_data
       IN ItemPut(items, EntryKey(entry), Resource(entry, data))

RECURSIVE LoadEntries(_, _, _, _)
LoadEntries(file_data, entries, i, items) ==
    IF i > Len(entries) THEN items
    ELSE LoadEntries(file_data, entries, i + 1, LoadEntry(file_data, entries[i], items))

\* mutant of IndexSlice: an index that overruns the file is dropped whole
IndexSliceDropped(file_data, index_offset, index_size) ==
    IF index_offset + index_size > Len(file_data) THEN <<>>
    ELSE Slice(file_data, index_offset, index_offset + index_size)

\* index_data (dbpf_parser.py:200-207), called with index_offset <= len(file_data)
IndexSlice(file_data, index_offset, index_size) ==
    LET index_end == index_offset + index_size
        actual_size == Len(file_data) - index_offset
    IN IF index_end > Len(file_data)
       THEN Slice(file_data, index_offset, index_offset + actual_size)
       ELSE Slice(file_data, index_offset, index_end)

\* DBPFFile.load on the bytes read from the path (dbpf_parser.py:172-236),
\* on an object just constructed; file: the header and resources the object
\* holds when load has returned or raised
load(file_data) ==
    LET Aborted(exc, header) ==
            [raised |-> TRUE, exc |-> exc,
             file |-> [header |-> header, resources |-> <<>>]]
    IN
    IF Slice(file_data, 0, 2) \in {<<120, 156>>, <<120, 218>>, <<120, 1>>, <<120, 94>>}
    THEN Aborted("ValueError: Kon gecomprimeerd bestand niet uitpakken", None)
    ELSE IF Len(file_data) < 96
    THEN Aborted("ValueError: Bestand te klein", None)
    ELSE LET h == DBPFHeader_from_bytes(Slice(file_data, 0, 96))
    IN IF h.raised THEN Aborted(h.exc, None)
       ELSE IF h.header.index_offset > Len(file_data)
       THEN Aborted("ValueError: Ongeldige index offset", h.header)
       ELSE
       LET index_data == IndexSlice(file_data, h.header.index_offset,
                                    h.header.index_size)
           entries == _parse_index(index_data, h.header.index_entry_count)
       IN [raised |-> FALSE, exc |-> NoExc,
           file |-> [header |-> h.header,
                     resources |-> LoadEntries(file_data, entries, 1, <<>>)]]

\* mutant of BuildIndexEntry: the compressed flag is not looked at
BuildIndexEntryPlain(entry) ==
    pack_id(entry.type_id)
       \o pack_id(entry.group_id)
       \o pack_id(SubSeq(entry.instance_id, 1, 4))
       \o pack_id(SubSeq(entry.instance_id, 5, 8))
       \o pack_u32(entry.offset)
       \o pack_u32(entry.file_size)
       \o pack_u32(entry.mem_size)

\* the bytes _build_index appends for one entry (dbpf_parser.py:634-648)
BuildIndexEntry(entry) ==
    LET size == pack_u32(entry.file_size)
    IN pack_id(entry.type_id)
       \o pack_id(entry.group_id)
       \o pack_id(SubSeq(entry.instance_id, 1, 4))
       \o pack_id(SubSeq(entry.instance_id, 5, 8))
       \o pack_u32(entry.offset)
       \o (IF entry.compressed
           THEN <<size[1], size[2], size[3], size[4] + 128>>
           ELSE size)
       \o pack_u32(entry.mem_size)
       \o (IF entry.compressed THEN pack_u32(entry.file_size) ELSE <<>>)

RECURSIVE BuildIndexEntries(_, _)
BuildIndexEntries(entries, i) ==
    IF i > Len(entries) THEN <<>>
    ELSE BuildIndexEntry(entries[i]) \o BuildIndexEntries(entries, i + 1)

\* dbpf_parser.py:623-650
_build_index(entries) ==
    IF entries = <<>> THEN pack_u32(0)
    ELSE pack_u32(0) \o BuildIndexEntries(entries, 1)

RECURSIVE DataBefore(_, _)
\* resource_data after the first n items (dbpf_parser.py:557)
DataBefore(items, n) ==
    IF n = 0 THEN <<>>
    ELSE DataBefore(items, n - 1) \o items[n].resource.data

\* mutant of SaveEntries: data_offset is not advanced
SaveEntriesSameOffset(items) ==
    [i \in 1..Len(items) |->
        IndexEntry(items[i].key[1], items[i].key[2], items[i].key[3],
                   96,
                   Len(items[i].resource.data),
                   Len(items[i].resource.data),
                   FALSE)]

\* the entries list save builds (dbpf_parser.py:539-558)
SaveEntries(items) ==
    [i \in 1..Len(items) |->
        IndexEntry(items[i].key[1], items[i].key[2], items[i].key[3],
                   96 + Len(DataBefore(items, i - 1)),
                   Len(items[i].resource.data),
                   Len(items[i].resource.data),
                   FALSE)]

\* the header save writes (dbpf_parser.py:564-610)
SaveHeader(entry_count, index_offset, index_len) ==
    <<68, 66, 80, 70>>
    \o pack_u32(2) \o pack_u32(1)
    \o pack_u32(0) \o pack_u32(0)
    \o pack_u32(0)
    \o pack_u32(0) \o pack_u32(0)
    \o pack_u32(0)
    \o pack_u32(entry_count)
    \o pack_u32(0)
    \o pack_u32(index_len)
    \o pack_u32(0) \o pack_u32(0) \o pack_u32(0)
    \o pack_u32(3)
    \o pack_u32(index_offset)
    \o pack_u32(0)
    \o Zeros(8)
    \o <<255, 255>>
    \o Zeros(14)

\* the bytes DBPFFile.save writes, compress_file = False (dbpf_parser.py:525-621)
save(file) ==
    LET items == file.resources
        resource_data == DataBefore(items, Len(items))
        entries == SaveEntries(items)
        index_data == _build_index(entries)
        index_offset == 96 + Len(resource_data)
    IN SaveHeader(Len(entries), index_offset, Len(index_data))
       \o resource_data \o index_data

-----------------------------------------------------------------------------
(* Bounds and the save files the merger specifications draw from           *)

\* most distinct keys in the two save files of one load_files call of SpecPipeline
MaxPairKeys == 1
\* most keys in a caller-supplied override set
MaxOverride == 1
\* number of distinct payloads of the small length
NumIds == 2

KEY_LOT_DATA == Key(TYPE_LOT_DATA, ZeroGroup, Instance(1))
KEY_LOT == Key(<<232, 130, 210, 47>>, ZeroGroup, Instance(2))
KEY_ZONE == Key(<<220, 149, 207, 26>>, ZeroGroup, Instance(3))
KEY_OBJECT == Key(<<98, 236, 197, 154>>, ZeroGroup, Instance(4))
KEY_SIMINFO == Key(<<192, 219, 90, 231>>, ZeroGroup, Instance(5))
KEY_SIMDATA == Key(TYPE_SIMDATA, ZeroGroup, Instance(6))

PipelineKeys == {KEY_LOT_DATA, KEY_LOT, KEY_ZONE, KEY_OBJECT, KEY_SIMINFO, KEY_SIMDATA}
PipelineData == {Data(50, i) : i \in 1..NumIds} \cup {Data(5000, 1)}

ReuseKeys == {KEY_LOT_DATA, KEY_SIMINFO}
ReuseData == {Data(50, 1), Data(5000, 1)}

\* a path whose file DBPFFile.load rejects (dbpf_parser.py:185, 189, 40, 44, 196)
BadFile == [bad |-> TRUE]

\* the save files over a key set: what DBPFFile(path) holds after loading them.
\* A loaded file never holds an empty payload (dbpf_parser.py:222-223).
FilesOver(keys, datas) ==
    {[header |-> LoadedHeader, resources |-> f] :
        f \in UNION {[ks -> datas] : ks \in SUBSET keys}}

PipelineFiles ==
    UNION {FilesOver(ks, PipelineData) :
            ks \in {x \in SUBSET PipelineKeys : Cardinality(x) <= MaxPairKeys}}
ReuseFiles == FilesOver(ReuseKeys, ReuseData)

\* the two save files of one load hold at most max_keys keys together
PairWithin(n, o, max_keys) == Cardinality(Keys(n) \cup Keys(o)) <= max_keys

\* the override sets a caller may pass for the files loaded: None, or a set
\* of at most MaxOverride keys of the two files
OverrideSets(with_overrides, keys) ==
    IF with_overrides
    THEN {NoSet} \cup {GivenSet(x) : x \in {y \in SUBSET keys : Cardinality(y) <= MaxOverride}}
    ELSE {NoSet}

\* DBPFFile(path) (dbpf_parser.py:163-170): raises or returns the loaded file
DBPFFile(path) ==
    IF path = BadFile THEN [raised |-> TRUE, exc |-> "ValueError"]
    ELSE [raised |-> FALSE, file |-> path]

\* DBPFFile.get_statistics, the count part (dbpf_parser.py:656-672)
get_statistics(file) == [resource_count |-> Cardinality(Keys(file))]

-----------------------------------------------------------------------------
(* Actions of the merger                                                   *)

\* merger.py:121-122: DBPFFile(newer_path) raises, nothing is assigned
LoadFilesNewerRaises ==
    /\ DBPFFile(BadFile).raised
    /\ load_state' = "raised"
    /\ last' = Call("load_files", "raised", DBPFFile(BadFile).exc, NoArgs,
                    None, None, None, None, <<0>>)
    /\ UNCHANGED <<newer_file, older_file, comparison>>
    /\ UNCHANGED codecVars

\* merger.py:121-125: the newer file is stored, DBPFFile(older_path) raises
LoadFilesOlderRaises(files) ==
    \E newer_path \in files :
        /\ ~DBPFFile(newer_path).raised
        /\ DBPFFile(BadFile).raised
        /\ newer_file' = DBPFFile(newer_path).file
        /\ load_state' = "raised"
        /\ last' = Call("load_files", "raised", DBPFFile(BadFile).exc, NoArgs,
                        None, None, None, None, <<0, 25>>)
        /\ UNCHANGED <<older_file, comparison>>
        /\ UNCHANGED codecVars

\* merger.py:110-135: both files load
LoadFilesOk(files, max_keys) ==
    \E newer_path \in files, older_path \in files :
        /\ PairWithin(newer_path, older_path, max_keys)
        /\ ~DBPFFile(newer_path).raised
        /\ ~DBPFFile(older_path).raised
        /\ newer_file' = DBPFFile(newer_path).file
        /\ older_file' = DBPFFile(older_path).file
        /\ comparison' = compare_files(newer_file', older_file')
        /\ load_state' = "completed"
        /\ last' = Call("load_files", "returned", NoExc, NoArgs, None, None,
                        <<get_statistics(newer_file'), get_statistics(older_file')>>,
                        None, <<0, 25, 50, 100>>)
        /\ UNCHANGED codecVars

\* merger.py:356: the guard of merge
FilesLoaded == newer_file # None /\ older_file # None /\ comparison # None

\* merger.py:356-357
MergeNotLoaded ==
    /\ ~FilesLoaded
    /\ \E strategy \in Strategies :
        last' = Call("merge", "raised", "ValueError: Files not loaded",
                     MergeArgs(strategy, NoSet, NoSet, "skip"), None, None, None, None, <<>>)
    /\ UNCHANGED <<newer_file, older_file, comparison, load_state>>
    /\ UNCHANGED codecVars

\* merger.py:364-368: shutil.copy2 of the existing output raises
MergeBackupRaises ==
    /\ FilesLoaded
    /\ \E strategy \in Strategies :
        last' = Call("merge", "raised", "OSError",
                     MergeArgs(strategy, NoSet, NoSet, "raises"), None, None, None, None, <<>>)
    /\ UNCHANGED <<newer_file, older_file, comparison, load_state>>
    /\ UNCHANGED codecVars

\* the keys of the two files stored in the merger
StoredKeys == Keys(newer_file) \cup Keys(older_file)

\* the newer file after merge: untouched unless merged is the same object
NewerAfterMerge(body) ==
    IF MergedObject(newer_file).object = "newer_file"
    THEN [newer_file EXCEPT !.resources = body.resources]
    ELSE newer_file

\* merger.py:212-214, 255-257, 422-424: a lookup of a key of the stored
\* comparison raises KeyError
MergeKeyError(with_overrides) ==
    /\ FilesLoaded
    /\ \E strategy \in Strategies, backup \in {"skip", "made"} :
       \E resources_to_add \in OverrideSets(with_overrides, StoredKeys),
          resources_from_older \in OverrideSets(with_overrides, StoredKeys) :
        \E body \in {MergeBody(strategy, resources_to_add, resources_from_older,
                                newer_file, older_file, comparison)} :
           /\ body.raised
           /\ last' = Call("merge", "raised", body.exc,
                           MergeArgs(strategy, resources_to_add, resources_from_older, backup),
                           None, None, None, None, body.progress)
    /\ UNCHANGED <<newer_file, older_file, comparison, load_state>>
    /\ UNCHANGED codecVars

\* merger.py:365-369
BackupWarning(backup) == IF backup = "made" THEN << <<"Backup gemaakt">> >> ELSE <<>>

\* mutant of SaveProgress: 100 is reported whether or not the save raised
SaveProgressAlways(progress, saved) == Append(progress, 100)

\* merger.py:430-444 and 494-508: the return of the save-failure path comes
\* before _report_progress("Samenvoegen voltooid!", 100)
SaveProgress(progress, saved) == IF saved THEN Append(progress, 100) ELSE progress

\* merger.py:430-442 and 494-506: merged.save raises
MergeSaveFails(with_overrides) ==
    /\ FilesLoaded
    /\ \E strategy \in Strategies, backup \in {"skip", "made"} :
       \E resources_to_add \in OverrideSets(with_overrides, StoredKeys),
          resources_from_older \in OverrideSets(with_overrides, StoredKeys) :
        \E body \in {MergeBody(strategy, resources_to_add, resources_from_older,
                                newer_file, older_file, comparison)} :
           /\ ~body.raised
           /\ newer_file' = NewerAfterMerge(body)
           /\ last' = Call("merge", "returned", NoExc,
                           MergeArgs(strategy, resources_to_add, resources_from_older, backup),
                           body.resources, body.source,
                           MergeResult(FALSE, None, body.resources_from_newer,
                                       body.resources_from_older,
                                       Cardinality(DOMAIN body.resources),
                                       <<"Fout bij opslaan">>,
                                       BackupWarning(backup) \o body.warnings),
                           None, SaveProgress(body.progress, FALSE))
    /\ UNCHANGED <<older_file, comparison, load_state>>
    /\ UNCHANGED codecVars

\* merger.py:444-454 and 508-518: merged.save wrote the output
MergeSaved(with_overrides) ==
    /\ FilesLoaded
    /\ \E strategy \in Strategies, backup \in {"skip", "made"} :
       \E resources_to_add \in OverrideSets(with_overrides, StoredKeys),
          resources_from_older \in OverrideSets(with_overrides, StoredKeys) :
        \E body \in {MergeBody(strategy, resources_to_add, resources_from_older,
                                newer_file, older_file, comparison)} :
           /\ ~body.raised
           /\ newer_file' = NewerAfterMerge(body)
           /\ last' = Call("merge", "returned", NoExc,
                           MergeArgs(strategy, resources_to_add, resources_from_older, backup),
                           body.resources, body.source,
                           MergeResult(TRUE, "output_path", body.resources_from_newer,
                                       body.resources_from_older,
                                       Cardinality(DOMAIN body.resources),
                                       <<>>,
                                       BackupWarning(backup) \o body.warnings),
                           body.resources, SaveProgress(body.progress, TRUE))
    /\ UNCHANGED <<older_file, comparison, load_state>>
    /\ UNCHANGED codecVars

\* Sims4SaveMerger.__init__ (merger.py:93-103)
MergerInit ==
    /\ newer_file = None
    /\ older_file = None
    /\ comparison = None
    /\ load_state = "never"
    /\ last = Call("__init__", "returned", NoExc, NoArgs, None, None, None, None, <<>>)

CodecIdle ==
    /\ container = None
    /\ file_bytes = <<>>
    /\ codec_last = CodecCall("none", FALSE, NoExc, None)

-----------------------------------------------------------------------------
(* Spec: one merger object, load_files and merge(output_path, strategy)    *)
(* called in any order and any number of times                             *)

ReuseLoadFilesOk == LoadFilesOk(ReuseFiles, Cardinality(ReuseKeys))
ReuseLoadFilesOlderRaises == LoadFilesOlderRaises(ReuseFiles)
ReuseMergeKeyError == MergeKeyError(FALSE)
ReuseMergeSaveFails == MergeSaveFails(FALSE)
ReuseMergeSaved == MergeSaved(FALSE)

Init == MergerInit /\ CodecIdle

Next ==
    \/ LoadFilesNewerRaises
    \/ ReuseLoadFilesOlderRaises
    \/ ReuseLoadFilesOk
    \/ MergeNotLoaded
    \/ ReuseMergeSaved
    \/ ReuseMergeSaveFails
    \/ ReuseMergeKeyError
    \/ MergeBackupRaises

Spec == Init /\ [][Next]_vars

-----------------------------------------------------------------------------
(* SpecPipeline: the pipeline of the callers (cli.py:109-130): a merger is *)
(* constructed, load_files is called on it, then merge, with any strategy  *)
(* and any override sets                                                   *)

\* no load_files call has stored a file in this merger yet
Fresh == newer_file = None

\* merge has not been called on this merger yet
NotMerged == last.op # "merge"

PipelineLoadFilesNewerRaises == Fresh /\ LoadFilesNewerRaises
PipelineLoadFilesOlderRaises == Fresh /\ LoadFilesOlderRaises(PipelineFiles)
PipelineLoadFilesOk == Fresh /\ LoadFilesOk(PipelineFiles, MaxPairKeys)
PipelineMergeNotLoaded == NotMerged /\ MergeNotLoaded
PipelineMergeBackupRaises == NotMerged /\ MergeBackupRaises
PipelineMergeSaveFails == NotMerged /\ MergeSaveFails(TRUE)
PipelineMergeSaved == NotMerged /\ MergeSaved(TRUE)

NextPipeline ==
    \/ PipelineLoadFilesNewerRaises
    \/ PipelineLoadFilesOlderRaises
    \/ PipelineLoadFilesOk
    \/ PipelineMergeNotLoaded
    \/ PipelineMergeBackupRaises
    \/ PipelineMergeSaveFails
    \/ PipelineMergeSaved

SpecPipeline == Init /\ [][NextPipeline]_vars

-----------------------------------------------------------------------------
(* SpecCodec: an in-memory container is saved and the bytes are loaded     *)

MaxPayloadLen == 2
MaxCodecRes == 2

\* keys whose identifiers differ in every field and use high and low bytes
CodecKeys ==
    {Key(<<0, 0, 0, 6>>, <<0, 0, 0, 0>>, <<0, 0, 0, 0, 0, 0, 0, 1>>),
     Key(<<192, 219, 90, 231>>, <<128, 0, 0, 1>>, <<1, 2, 3, 4, 5, 6, 7, 8>>),
     Key(<<0, 0, 0, 6>>, <<0, 0, 0, 0>>, <<255, 0, 0, 0, 0, 0, 0, 1>>)}

CodecBytes == {0, 251}

\* payload byte strings, the empty one included
CodecPayloads == UNION {[1..n -> CodecBytes] : n \in 0..MaxPayloadLen}

\* a container built in memory: DBPFFile() and resources[key] = Resource(..)
\* in insertion order (dbpf_parser.py:163-170, test_merger.py:21-51)
BuildContainer(ks, ds) ==
    [header |-> None,
     resources |->
        [i \in 1..Len(ks) |->
            Item(ks[i], Resource(IndexEntry(ks[i][1], ks[i][2], ks[i][3],
                                            0, Len(ds[i]), Len(ds[i]), FALSE),
                                 ds[i]))]]

CodecContainers ==
    UNION {{BuildContainer(ks, ds) :
                ks \in {s \in [1..n -> CodecKeys] :
                            \A i, j \in 1..n : s[i] = s[j] => i = j},
                ds \in [1..n -> CodecPayloads]} :
           n \in 0..MaxCodecRes}

\* save(filepath) writes the file (dbpf_parser.py:525-621)
CodecSave ==
    /\ file_bytes' = save(container)
    /\ codec_last' = CodecCall("save", FALSE, NoExc, None)
    /\ UNCHANGED <<container, mergerVars>>

\* open(filepath, 'wb') raises (dbpf_parser.py:620): nothing is written
CodecSaveRaises ==
    /\ codec_last' = CodecCall("save", TRUE, "OSError", None)
    /\ UNCHANGED <<container, file_bytes, mergerVars>>

\* load(filepath) of the file written (dbpf_parser.py:172-236)
CodecLoad ==
    /\ file_bytes # <<>>
    /\ \E r \in {load(file_bytes)} :
         codec_last' = CodecCall("load", r.raised, r.exc, r.file)
    /\ UNCHANGED <<container, file_bytes, mergerVars>>

\* load(filepath) before anything was written: open raises (dbpf_parser.py:176)
CodecLoadMissing ==
    /\ file_bytes = <<>>
    /\ codec_last' = CodecCall("load", TRUE, "FileNotFoundError", None)
    /\ UNCHANGED <<container, file_bytes, mergerVars>>

InitCodec ==
    /\ MergerInit
    /\ container \in CodecContainers
    /\ file_bytes = <<>>
    /\ codec_last = CodecCall("none", FALSE, NoExc, None)

NextCodec ==
    \/ CodecSave
    \/ CodecSaveRaises
    \/ CodecLoad
    \/ CodecLoadMissing

SpecCodec == InitCodec /\ [][NextCodec]_vars

-----------------------------------------------------------------------------
(* SpecRefPack: the RefPack decoder applied to byte strings that carry a   *)
(* RefPack signature, for every target size                                *)

MaxStreamLen == 4
MaxTarget == 3

\* one control byte of every branch of the decoder (0x01 and 0x41 of the
\* first, 0x80, 0xC0, 0xE0, 0xFC, 0xFD); 0x41 and 0x01 also serve as literals
RefPackBytes == {1, 65, 128, 192, 224, 252, 253}

RefPackSignatures == {<<16, 251>>, <<80, 251>>, <<144, 251>>}

RECURSIVE SeqsUpTo(_, _)
\* the sequences over S of length at most n
SeqsUpTo(S, n) ==
    IF n = 0 THEN {<<>>}
    ELSE LET shorter == SeqsUpTo(S, n - 1)
         IN shorter \cup {Append(q, b) : q \in {x \in shorter : Len(x) = n - 1}, b \in S}

\* the compressed inputs: a signature and at most MaxStreamLen bytes after it
RefPackStreams == {sig \o body : sig \in RefPackSignatures,
                                 body \in SeqsUpTo(RefPackBytes, MaxStreamLen)}

\* the record of one decoder call
Decoded(target_size, r) ==
    [target_size |-> target_size, raised |-> r.raised,
     data |-> r.data, cut |-> r.cut]

\* _decompress_refpack(data, target_size) called on the input
DecompressRefPack ==
    /\ \E target_size \in 0..MaxTarget :
         \E r \in {_decompress_refpack(file_bytes, target_size)} :
           codec_last' = CodecCall("_decompress_refpack", r.raised, r.exc,
                                   Decoded(target_size, r))
    /\ UNCHANGED <<container, file_bytes, mergerVars>>

\* _decompress(data, target_size) called on the input: it hands inputs of
\* five bytes and more to the RefPack decoder (dbpf_parser.py:409-410)
Decompress ==
    /\ \E target_size \in 0..MaxTarget :
         \E r \in {_decompress(file_bytes, target_size)} :
           codec_last' = CodecCall("_decompress", r.raised, r.exc,
                                   Decoded(target_size, r))
    /\ UNCHANGED <<container, file_bytes, mergerVars>>

InitRefPack ==
    /\ MergerInit
    /\ container = None
    /\ file_bytes \in RefPackStreams
    /\ codec_last = CodecCall("none", FALSE, NoExc, None)

NextRefPack ==
    \/ DecompressRefPack
    \/ Decompress

SpecRefPack == InitRefPack /\ [][NextRefPack]_vars

-----------------------------------------------------------------------------
(* SpecHeader: DBPFHeader.from_bytes applied to header buffers, whole, cut *)
(* short or followed by more bytes, and DBPFFile(path) on the same bytes   *)

MaxMajor == 2
MaxTail == 1

\* b'DBPF', a tag that differs from it in the last byte, and one that
\* begins like a zlib stream
MagicTags == {<<68, 66, 80, 70>>, <<68, 66, 80, 71>>, <<120, 156, 80, 70>>}

\* values of the index offset and size fields at 64, 68, 40 and 44
PrimaryOffsets == {0, 96}
PrimarySizes == {0, 4}
AlternateOffsets == {0, 97}
AlternateSizes == {0, 8}

\* the 96 bytes of a header with the given fields, in the layout from_bytes
\* reads (dbpf_parser.py:42-73)
HeaderBuffer(magic, major, count, alt_offset, alt_size, prim_offset, prim_size) ==
    magic \o pack_u32(major) \o pack_u32(1) \o Zeros(20)
          \o pack_u32(7) \o pack_u32(count)
          \o pack_u32(alt_offset) \o pack_u32(alt_size) \o Zeros(16)
          \o pack_u32(prim_offset) \o pack_u32(prim_size) \o Zeros(24)

HeaderBuffers ==
    {HeaderBuffer(magic, major_version, index_entry_count, alt_offset, alt_size,
                  primary_offset, primary_size) :
        magic \in MagicTags, major_version \in 0..MaxMajor,
        index_entry_count \in {0, 1},
        alt_offset \in AlternateOffsets, alt_size \in AlternateSizes,
        primary_offset \in PrimaryOffsets, primary_size \in PrimarySizes}

\* the lengths the buffers are cut to or lengthened to
HeaderLens == {0, 3, 4, 95} \cup 96..(96 + MaxTail)

HeaderStreams == {Slice(b \o Zeros(MaxTail), 0, n) : b \in HeaderBuffers, n \in HeaderLens}

\* DBPFHeader.from_bytes(data) called on the input
FromBytes ==
    /\ \E r \in {DBPFHeader_from_bytes(file_bytes)} :
         codec_last' = CodecCall("from_bytes", r.raised,
                                 IF r.raised THEN r.exc ELSE NoExc,
                                 [header |-> IF r.raised THEN None ELSE r.header])
    /\ UNCHANGED <<container, file_bytes, mergerVars>>

\* DBPFFile(path) on a file that holds the input: __init__ and load
\* (dbpf_parser.py:163-236)
LoadStream ==
    /\ \E r \in {load(file_bytes)} :
         codec_last' = CodecCall("load", r.raised, r.exc, r.file)
    /\ UNCHANGED <<container, file_bytes, mergerVars>>

InitHeader ==
    /\ MergerInit
    /\ container = None
    /\ file_bytes \in HeaderStreams
    /\ codec_last = CodecCall("none", FALSE, NoExc, None)

NextHeader ==
    \/ FromBytes
    \/ LoadStream

SpecHeader == InitHeader /\ [][NextHeader]_vars

-----------------------------------------------------------------------------
(* SpecIndex: _parse_index applied to index buffers of the flagged layout, *)
(* whole or cut short at any byte, for every declared count                *)

MaxIndexRecords == 2

\* flags words: no constant field, each one, all three, and words of 8 and
\* more (the fixed layout takes those for a type id)
IndexFlags == {0, 1, 2, 4, 7, 8, 13}

\* the i-th record of an index
IndexRecord(i, compressed) ==
    IndexEntry(TYPE_SIMDATA, ZeroGroup, Instance(i), 96 + 4 * (i - 1), 4,
               IF compressed THEN 8 ELSE 4, compressed)

IndexRecordSeqs ==
    UNION {{[i \in 1..n |-> IndexRecord(i, c[i])] : c \in [1..n -> BOOLEAN]} :
              n \in 0..MaxIndexRecords}

\* the bytes of one record as _parse_index_dbpf2 reads them
\* (dbpf_parser.py:297-325)
FlaggedEntryBytes(flags, entry) ==
    LET size == pack_u32(entry.file_size)
    IN (IF flags % 2 = 1 THEN <<>> ELSE pack_id(entry.type_id))
       \o (IF (flags \div 2) % 2 = 1 THEN <<>> ELSE pack_id(entry.group_id))
       \o (IF (flags \div 4) % 2 = 1 THEN <<>>
           ELSE pack_id(SubSeq(entry.instance_id, 1, 4)))
       \o pack_id(SubSeq(entry.instance_id, 5, 8))
       \o pack_u32(entry.offset)
       \o (IF entry.compressed
           THEN <<size[1], size[2], size[3], size[4] + 128>>
           ELSE size)
       \o pack_u32(entry.mem_size)
       \o (IF entry.compressed THEN pack_u32(entry.file_size) ELSE <<>>)

\* the flags word and the constant fields (dbpf_parser.py:275-293)
FlaggedIndexHeader(flags) ==
    pack_u32(flags)
       \o (IF flags % 2 = 1 THEN pack_id(TYPE_SIMDATA) ELSE <<>>)
       \o (IF (flags \div 2) % 2 = 1 THEN pack_id(ZeroGroup) ELSE <<>>)
       \o (IF (flags \div 4) % 2 = 1 THEN pack_id(<<0, 0, 0, 0>>) ELSE <<>>)

RECURSIVE FlaggedIndex(_, _, _)
\* the index of the first n of the entries
FlaggedIndex(flags, entries, n) ==
    IF n = 0 THEN FlaggedIndexHeader(flags)
    ELSE FlaggedIndex(flags, entries, n - 1) \o FlaggedEntryBytes(flags, entries[n])

\* an index and the count declared for it
IndexInputs ==
    [flags : IndexFlags, entries : IndexRecordSeqs, count : 0..(MaxIndexRecords + 1)]

\* _parse_index(data, count) called on the buffer
ParseIndex ==
    /\ \E entries \in {_parse_index(file_bytes, container.count)} :
         codec_last' = CodecCall("_parse_index", FALSE, NoExc, [entries |-> entries])
    /\ UNCHANGED <<container, file_bytes, mergerVars>>

\* container holds the index the buffer was built from and the declared count
InitIndex ==
    /\ MergerInit
    /\ container \in IndexInputs
    /\ \E whole \in {FlaggedIndex(container.flags, container.entries,
                                  Len(container.entries))} :
         file_bytes \in {Slice(whole, 0, n) : n \in 0..Len(whole)}
    /\ codec_last = CodecCall("none", FALSE, NoExc, None)

NextIndex == ParseIndex

SpecIndex == InitIndex /\ [][NextIndex]_vars

-----------------------------------------------------------------------------
(* SpecSmart: the pipeline on two save files that hold one key between    *)
(* them, with payload sizes on both sides of the thresholds of             *)
(* _detect_empty_resources                                                 *)

\* payload sizes: 50 against 250 and 500 (5 and 10 times), 200 against 5000
\* (newer of 100 bytes and more), 40 against 1000 (older of exactly 1000)
SmartSizes == {40, 50, 200, 250, 500, 1000, 5000}

SmartData == {Data(n, 1) : n \in SmartSizes}

SmartFiles == UNION {FilesOver({k}, SmartData) : k \in PipelineKeys}

SmartLoadFilesOk == Fresh /\ LoadFilesOk(SmartFiles, 1)
SmartMergeSaved == NotMerged /\ MergeSaved(FALSE)
SmartMergeSaveFails == NotMerged /\ MergeSaveFails(FALSE)

NextSmart ==
    \/ SmartLoadFilesOk
    \/ SmartMergeSaved
    \/ SmartMergeSaveFails

SpecSmart == Init /\ [][NextSmart]_vars

-----------------------------------------------------------------------------
(* SpecLoad: DBPFFile(path) on streams of a header, an index of one record *)
(* and the payload the record points at, the record's sizes and            *)
(* compression bit being any                                               *)

\* payloads as stored in the stream: raw bytes, two RefPack streams (the
\* second ends in a control byte without its operands) and bytes that
\* begin like a zlib stream
StoredPayloads ==
    {<<1, 2, 3, 4>>, <<16, 251, 253, 65, 252>>, <<16, 251, 253, 65, 128>>,
     <<120, 156, 1, 2, 3>>}

\* how far the declared sizes lie from the number of bytes stored
MaxSizeGap == 2

\* the stream: header, index, payload (dbpf_parser.py:191-236)
LoadStreamOf(flags, count, payload, file_size, mem_size, compressed) ==
    LET index_size == Len(FlaggedIndex(flags, <<IndexRecord(1, compressed)>>, 1))
        entry == IndexEntry(TYPE_SIMDATA, ZeroGroup, Instance(1), 96 + index_size,
                            file_size, mem_size, compressed)
    IN HeaderBuffer(<<68, 66, 80, 70>>, 2, count, 0, 0, 96, index_size)
          \o FlaggedIndex(flags, <<entry>>, 1)
          \o payload

LoadStreams ==
    {LoadStreamOf(flags, count, payload, Len(payload) + file_gap,
                  Len(payload) + mem_gap, compressed) :
        flags \in {0, 7}, count \in {0, 1}, payload \in StoredPayloads,
        file_gap \in {0, MaxSizeGap},
        mem_gap \in {0 - MaxSizeGap, 0, MaxSizeGap},
        compressed \in BOOLEAN}

InitLoad ==
    /\ MergerInit
    /\ container = None
    /\ file_bytes \in LoadStreams
    /\ codec_last = CodecCall("none", FALSE, NoExc, None)

NextLoad == LoadStream

SpecLoad == InitLoad /\ [][NextLoad]_vars

-----------------------------------------------------------------------------
(* SpecCopy: the RefPack decoder applied to streams of a signature, a run  *)
(* of literals and one copy command of each of the three bit-packings      *)

\* most literal bytes before the copy command (one 0xFC..0xFF control byte
\* carries at most three)
MaxPrefix == 2
\* most literal bytes the copy command itself carries
MaxCopyLiterals == 1
\* largest copy offset
MaxCopyOffset == 2

\* the 2-byte header and the 5-byte header with its size hint
\* (dbpf_parser.py:419-429)
CopySignatures == {<<16, 251>>, <<80, 251, 0, 0, 9>>}

\* the copy lengths of a bit-packing: the shortest, and one that uses the
\* high bits of its length field
CopyLengths(packing) ==
    IF packing = 1 THEN {3, 10} ELSE IF packing = 2 THEN {4, 67} ELSE {5, 261}

\* the control byte and operand bytes from which the decoder derives the
\* fields (dbpf_parser.py:435-441, 456-463, 475-485), then the literals
CopyCommand(packing, literals, copy_offset, copy_length) ==
    (IF packing = 1
     THEN <<((copy_offset \div 256) % 4) * 32 + (copy_length - 3) * 4 + Len(literals),
            copy_offset % 256>>
     ELSE IF packing = 2
     THEN <<128 + (copy_length - 4),
            Len(literals) * 64 + ((copy_offset \div 256) % 64),
            copy_offset % 256>>
     ELSE <<192 + ((copy_length - 5) \div 256) * 4 + Len(literals),
            (copy_length - 5) % 256,
            (copy_offset \div 256) % 256,
            copy_offset % 256>>)
    \o literals

\* a run of at most three literals under one control byte
\* (dbpf_parser.py:505-511)
LiteralRun(literals) ==
    IF literals = <<>> THEN <<>> ELSE <<252 + Len(literals)>> \o literals

\* the fields of the streams
CopyInputs ==
    [signature : CopySignatures,
     prefix : SeqsUpTo({65, 66}, MaxPrefix),
     packing : 1..3,
     literals : SeqsUpTo({67}, MaxCopyLiterals),
     copy_offset : 0..MaxCopyOffset,
     long : BOOLEAN]

\* the copy length of an input
CopyLengthOf(input) ==
    CHOOSE n \in CopyLengths(input.packing) :
        input.long <=> \A m \in CopyLengths(input.packing) : m <= n

CopyStream(input) ==
    input.signature \o LiteralRun(input.prefix)
       \o CopyCommand(input.packing, input.literals, input.copy_offset,
                      CopyLengthOf(input))

\* container holds the fields the stream was built from
InitCopy ==
    /\ MergerInit
    /\ container \in CopyInputs
    /\ file_bytes = CopyStream(container)
    /\ codec_last = CodecCall("none", FALSE, NoExc, None)

NextCopy ==
    \/ DecompressRefPack
    \/ Decompress

SpecCopy == InitCopy /\ [][NextCopy]_vars

-----------------------------------------------------------------------------
(* SpecOverrun: DBPFFile(path) on streams of a header, four payload bytes  *)
(* and an index of two records, cut short at the end, the header's index   *)
(* offset and size reaching up to and beyond the end of the stream         *)

\* how far the index offset and size of the header reach beyond the stream
MaxOverrun == 2

\* where the payload bytes and the index begin
OverrunDataAt == 96
OverrunIndexAt == 100

\* the i-th record: two payload bytes of its own
OverrunRecord(i) ==
    IndexEntry(TYPE_SIMDATA, ZeroGroup, Instance(i), OverrunDataAt + 2 * (i - 1),
               2, 2, FALSE)

OverrunIndex == FlaggedIndex(0, <<OverrunRecord(1), OverrunRecord(2)>>, 2)

\* the index offsets of the header: the index, the end of the whole stream
\* and past it
OverrunOffsets ==
    {OverrunIndexAt} \cup {OverrunIndexAt + Len(OverrunIndex) + d : d \in 0..MaxOverrun}

\* the index sizes of the header: the first record only, the whole index,
\* more than the index
OverrunSizes == {32, Len(OverrunIndex), Len(OverrunIndex) + MaxOverrun}

\* the numbers of bytes missing at the end of the stream: none, one, the
\* second record, one more, both records, the whole index
OverrunCuts == {0, 1, 28, 29, 56, 60}

OverrunInputs ==
    [index_offset : OverrunOffsets, index_size : OverrunSizes, count : {1, 2},
     cut : OverrunCuts]

\* the stream: header, payload bytes, index (dbpf_parser.py:191-236)
OverrunStream(input) ==
    LET whole == HeaderBuffer(<<68, 66, 80, 70>>, 2, input.count, 0, 0,
                              input.index_offset, input.index_size)
                    \o <<1, 2, 3, 4>> \o OverrunIndex
    IN Slice(whole, 0, Len(whole) - input.cut)

\* container holds the fields the stream was built from
InitOverrun ==
    /\ MergerInit
    /\ container \in OverrunInputs
    /\ file_bytes = OverrunStream(container)
    /\ codec_last = CodecCall("none", FALSE, NoExc, None)

NextOverrun == LoadStream

SpecOverrun == InitOverrun /\ [][NextOverrun]_vars

-----------------------------------------------------------------------------
(* SpecRecords: DBPFFile(path) on streams of a header, an index of several *)
(* records and their payloads, each record sound or unsound in its own way *)

\* most records in the index
MaxLoadRecords == 3

\* a record stored raw, one stored as a RefPack stream, one whose payload
\* begins like a zlib stream and is none, one whose offset is the end of
\* the stream and one whose offset lies past it
RecordKinds == {"raw", "refpack", "zlib", "at end", "past end"}

StoredKinds == {"raw", "refpack", "zlib"}

\* the payload bytes of the i-th record as stored in the stream
KindPayload(kind, i) ==
    IF kind = "raw" THEN <<i, 2, 3>>
    ELSE IF kind = "refpack" THEN <<16, 251, 253, 64 + i, 252>>
    ELSE IF kind = "zlib" THEN <<120, 156, 1, 2, 3>>
    ELSE <<>>

KindCompressed(kind) == kind \in {"refpack", "zlib"}

\* the size the index declares for the record in memory
KindMemSize(kind) ==
    IF kind = "refpack" THEN 1 ELSE IF kind = "zlib" THEN 9 ELSE 3

\* the size the index declares for the record in the file
KindFileSize(kind) == IF kind \in StoredKinds THEN Len(KindPayload(kind, 1)) ELSE 3

RECURSIVE PayloadsBefore(_, _)
\* the payloads of the first n records, one after the other
PayloadsBefore(kinds, n) ==
    IF n = 0 THEN <<>>
    ELSE PayloadsBefore(kinds, n - 1) \o KindPayload(kinds[n], n)

RECURSIVE KindsIndexLen(_, _)
\* the length of the index of the first n records: 28 bytes a record, 32
\* for one with the compression bit (dbpf_parser.py:297-325)
KindsIndexLen(kinds, n) ==
    IF n = 0 THEN 4
    ELSE KindsIndexLen(kinds, n - 1) + (IF KindCompressed(kinds[n]) THEN 32 ELSE 28)

\* the offset the index declares for the i-th record
KindOffset(kinds, i) ==
    LET data_at == 96 + KindsIndexLen(kinds, Len(kinds))
        end == data_at + Len(PayloadsBefore(kinds, Len(kinds)))
    IN IF kinds[i] \in StoredKinds THEN data_at + Len(PayloadsBefore(kinds, i - 1))
       ELSE IF kinds[i] = "at end" THEN end
       ELSE end + 1

KindRecord(kinds, i) ==
    IndexEntry(TYPE_SIMDATA, ZeroGroup, Instance(i), KindOffset(kinds, i),
               KindFileSize(kinds[i]), KindMemSize(kinds[i]), KindCompressed(kinds[i]))

\* the stream: header, index, payloads (dbpf_parser.py:191-236)
RecordsStream(kinds) ==
    HeaderBuffer(<<68, 66, 80, 70>>, 2, Len(kinds), 0, 0, 96,
                 KindsIndexLen(kinds, Len(kinds)))
       \o FlaggedIndex(0, [i \in 1..Len(kinds) |-> KindRecord(kinds, i)], Len(kinds))
       \o PayloadsBefore(kinds, Len(kinds))

\* container holds the kinds of the records of the stream
InitRecords ==
    /\ MergerInit
    /\ container \in [kinds : SeqsUpTo(RecordKinds, MaxLoadRecords) \ {<<>>}]
    /\ file_bytes = RecordsStream(container.kinds)
    /\ codec_last = CodecCall("none", FALSE, NoExc, None)

NextRecords == LoadStream

SpecRecords == InitRecords /\ [][NextRecords]_vars

-----------------------------------------------------------------------------
(* SpecSerialize: the header buffers of SpecHeader are parsed and the      *)
(* header is written again, by DBPFHeader.to_bytes and by DBPFFile.save    *)

\* the record of one serialization: the header object and the bytes
Serialized(header, bytes) == [header |-> header, bytes |-> bytes]

\* header.to_bytes() on the header from_bytes has returned
ToBytes ==
    /\ codec_last.op = "from_bytes"
    /\ ~codec_last.raised
    /\ codec_last' = CodecCall("to_bytes", FALSE, NoExc,
                               Serialized(codec_last.file.header,
                                          DBPFHeader_to_bytes(codec_last.file.header)))
    /\ UNCHANGED <<container, file_bytes, mergerVars>>

\* save(filepath) on the DBPFFile a load has filled (dbpf_parser.py:525-621)
SaveLoaded ==
    /\ codec_last.op = "load"
    /\ ~codec_last.raised
    /\ codec_last' = CodecCall("save", FALSE, NoExc,
                               Serialized(codec_last.file.header, save(codec_last.file)))
    /\ UNCHANGED <<container, file_bytes, mergerVars>>

NextSerialize ==
    \/ FromBytes
    \/ LoadStream
    \/ ToBytes
    \/ SaveLoaded

SpecSerialize == InitHeader /\ [][NextSerialize]_vars

-----------------------------------------------------------------------------
(* SpecBuild: _build_index applied to lists of index entries, with and     *)
(* without the compressed flag, and _parse_index applied to its output     *)

\* most entries in the list
MaxBuildRecords == 2

\* the largest number of 31 bits
MaxSize31 == 2147483647

\* entries with identifiers of high and low bytes, small and largest
\* offsets and sizes, compressed or not
BuildRecords ==
    {IndexEntry(k[1], k[2], k[3], offset, file_size, mem_size, compressed) :
        k \in CodecKeys, offset \in {96, MaxSize31}, file_size \in {4, MaxSize31},
        mem_size \in {8, MaxSize31}, compressed \in BOOLEAN}

BuildInputs ==
    UNION {[entries : [1..n -> BuildRecords], count : {n}] : n \in 0..MaxBuildRecords}

\* index_data = self._build_index(entries)
BuildIndex ==
    /\ file_bytes' = _build_index(container.entries)
    /\ codec_last' = CodecCall("_build_index", FALSE, NoExc, None)
    /\ UNCHANGED <<container, mergerVars>>

\* _parse_index(index_data, len(entries)) on the index built
ParseBuilt ==
    /\ file_bytes # <<>>
    /\ ParseIndex

\* container holds the list of entries and its length
InitBuild ==
    /\ MergerInit
    /\ container \in BuildInputs
    /\ file_bytes = <<>>
    /\ codec_last = CodecCall("none", FALSE, NoExc, None)

NextBuild ==
    \/ BuildIndex
    \/ ParseBuilt

SpecBuild == InitBuild /\ [][NextBuild]_vars

-----------------------------------------------------------------------------
(* SpecAgain: the pipeline run twice: the file the first merge wrote is    *)
(* loaded as the newer file, next to the same older file, by a merger of   *)
(* its own, and merged again                                               *)

AgainFiles == FilesOver(ReuseKeys, PipelineData)

\* mutant of Reloaded: the file read back holds no resource
ReloadedNone(resources) == EmptyResources

\* what DBPFFile(output_path) holds of the resources merged.save wrote:
\* a record of no bytes is skipped (dbpf_parser.py:222-223)
Reloaded(resources) ==
    Restrict(resources, {k \in DOMAIN resources : DataLen(resources[k]) > 0})

AgainLoadFilesOk == Fresh /\ LoadFilesOk(AgainFiles, Cardinality(ReuseKeys))
AgainMergeSaved == last.op = "load_files" /\ MergeSaved(FALSE)

\* load_files(output_path, older_path) on a new merger (cli.py:109-112,
\* merger.py:110-135); container keeps the merge that wrote output_path
LoadMergedFiles ==
    /\ last.op = "merge"
    /\ last.outcome = "returned"
    /\ last.result.success
    /\ container = None
    /\ container' = [written_by |-> last.args, merged |-> last.merged,
                     source |-> last.source]
    /\ newer_file' = [header |-> LoadedHeader, resources |-> Reloaded(last.written)]
    /\ older_file' = older_file
    /\ comparison' = compare_files(newer_file', older_file')
    /\ load_state' = "completed"
    /\ last' = Call("load_files", "returned", NoExc, NoArgs, None, None,
                    <<get_statistics(newer_file'), get_statistics(older_file')>>,
                    None, <<0, 25, 50, 100>>)
    /\ UNCHANGED <<file_bytes, codec_last>>

NextAgain ==
    \/ AgainLoadFilesOk
    \/ AgainMergeSaved
    \/ LoadMergedFiles

SpecAgain == Init /\ [][NextAgain]_vars

-----------------------------------------------------------------------------
(* Claims                                                                  *)

\* the load that last ran read the bytes save wrote for the container
LoadedSaved ==
    /\ codec_last.op = "load"
    /\ file_bytes = save(container)

\* C1: round trip -- for every in-memory container (unique keys, any
\* payload byte strings), loading the bytes written by save yields a
\* container with exactly the same key set and, for every key, the same
\* payload bytes.
C1_RoundTrip ==
    LoadedSaved =>
        /\ ~codec_last.raised
        /\ ItemKeys(codec_last.file.resources) = ItemKeys(container.resources)
        /\ \A k \in ItemKeys(container.resources) :
              ItemGet(codec_last.file.resources, k).data
                  = ItemGet(container.resources, k).data

\* the empty payload is where save and load part
C1_FailingInput ==
    /\ LoadedSaved
    /\ \E i \in 1..Len(container.resources) : container.resources[i].resource.data = <<>>

\* merge returned a MergeResult (the save succeeded or failed)
MergeReturned == last.op = "merge" /\ last.outcome = "returned"

MergeReturnedWith(strategy) == MergeReturned /\ last.args.strategy = strategy

\* the caller passed no resources_from_older that selects anything
NoFromOlder ==
    ~(last.args.resources_from_older.given /\ last.args.resources_from_older.keys # {})

\* C2: comparison completeness -- the four sets compare_files returns
\* (only_in_file1, only_in_file2, same, different) are pairwise disjoint,
\* their union is keys(A) \cup keys(B), and a common key is in 'same' iff
\* its payloads are equal in A and B, otherwise in 'different'.
C2_ComparisonPartition ==
    comparison # None =>
        LET A == newer_file
            B == older_file
            c == comparison
        IN /\ c.only_in_file1 \cap c.only_in_file2 = {}
           /\ c.only_in_file1 \cap c.same = {}
           /\ c.only_in_file1 \cap c.different = {}
           /\ c.only_in_file2 \cap c.same = {}
           /\ c.only_in_file2 \cap c.different = {}
           /\ c.same \cap c.different = {}
           /\ c.only_in_file1 \cup c.only_in_file2 \cup c.same \cup c.different
                 = Keys(A) \cup Keys(B)
           /\ c.only_in_file1 = Keys(A) \ Keys(B)
           /\ c.only_in_file2 = Keys(B) \ Keys(A)
           /\ \A k \in Keys(A) \cap Keys(B) :
                 /\ k \in c.same <=> A.resources[k] = B.resources[k]
                 /\ k \in c.different <=> A.resources[k] # B.resources[k]

\* a common key whose payloads have one length and differ is 'different'
C2_Witness ==
    /\ comparison # None
    /\ \E k \in comparison.different :
          DataLen(newer_file.resources[k]) = DataLen(older_file.resources[k])

\* C3: NEWER_BASE_ADD_MISSING is additive only -- the output key set is
\* A.keys \cup (B.keys \ A.keys) (the caller not restricting the keys to
\* add), and every key of A, shared or not, holds A's payload (the caller
\* not selecting keys to take from older): no shared key is replaced.
C3_AddMissingOnly ==
    MergeReturnedWith("NEWER_BASE_ADD_MISSING") =>
        LET A == newer_file
            B == older_file
        IN /\ ~last.args.resources_to_add.given =>
                 DOMAIN last.merged = Keys(A) \cup (Keys(B) \ Keys(A))
           /\ NoFromOlder =>
                 \A k \in Keys(A) :
                    /\ k \in DOMAIN last.merged
                    /\ last.merged[k] = A.resources[k]
                    /\ last.source[k] = "newer"

\* a shared key whose older version is larger and different is kept from
\* newer
C3_Witness ==
    /\ MergeReturnedWith("NEWER_BASE_ADD_MISSING")
    /\ ~last.args.resources_to_add.given
    /\ NoFromOlder
    /\ \E k \in Keys(newer_file) \cap Keys(older_file) :
          /\ DataLen(older_file.resources[k]) > DataLen(newer_file.resources[k])
          /\ last.merged[k] = newer_file.resources[k]

Max(a, b) == IF a > b THEN a ELSE b

\* C4: PREFER_LARGER -- every key in both A and B has an output payload of
\* size max(size(A[k]), size(B[k])); older's version is taken exactly for
\* the keys of 'different' whose older payload is strictly larger.
C4_PreferLarger ==
    (MergeReturnedWith("PREFER_LARGER") /\ NoFromOlder) =>
        LET A == newer_file
            B == older_file
        IN \A k \in Keys(A) \cap Keys(B) :
              LET older_larger ==
                      /\ k \in comparison.different
                      /\ DataLen(B.resources[k]) > DataLen(A.resources[k])
              IN /\ k \in DOMAIN last.merged
                 /\ DataLen(last.merged[k])
                       = Max(DataLen(A.resources[k]), DataLen(B.resources[k]))
                 /\ last.source[k] = "older" <=> older_larger
                 /\ last.merged[k] = IF older_larger THEN B.resources[k]
                                                     ELSE A.resources[k]

\* a shared key whose older payload is larger is taken from older
C4_Witness ==
    /\ MergeReturnedWith("PREFER_LARGER")
    /\ NoFromOlder
    /\ \E k \in Keys(newer_file) \cap Keys(older_file) :
          /\ DataLen(older_file.resources[k]) > DataLen(newer_file.resources[k])
          /\ last.merged[k] = older_file.resources[k]
          /\ last.source[k] = "older"

\* C5: SMART_MERGE monotonicity -- for every world-data type, a key that
\* newer holds with 50 bytes and older with 5000 bytes is output in older's
\* version; a key of any type whose older payload is not larger than its
\* newer payload is never substituted by older's version.
C5_SmartMergeMonotone ==
    (MergeReturnedWith("SMART_MERGE") /\ NoFromOlder) =>
        LET A == newer_file
            B == older_file
        IN \A k \in Keys(A) \cap Keys(B) :
              /\ ( /\ k[1] \in WORLD_RELATED_TYPES
                   /\ DataLen(A.resources[k]) = 50
                   /\ DataLen(B.resources[k]) = 5000 )
                 => /\ last.merged[k] = B.resources[k]
                    /\ last.source[k] = "older"
              /\ DataLen(B.resources[k]) <= DataLen(A.resources[k])
                 => /\ last.merged[k] = A.resources[k]
                    /\ last.source[k] = "newer"

\* a world-type key of 50 against 5000 bytes is taken from older
C5_Witness ==
    /\ MergeReturnedWith("SMART_MERGE")
    /\ NoFromOlder
    /\ \E k \in Keys(newer_file) \cap Keys(older_file) :
          /\ k[1] \in WORLD_RELATED_TYPES
          /\ DataLen(newer_file.resources[k]) = 50
          /\ DataLen(older_file.resources[k]) = 5000
          /\ last.merged[k] = older_file.resources[k]
          /\ last.source[k] = "older"

\* C6: WORKING_BASE -- the output key set is keys(O) \cup keys(N); a key of
\* O holds O's payload unless its type is in SIM_RELATED_TYPES and the key
\* is also in N, in which case it holds N's payload; a key only N has
\* holds N's payload.
C6_WorkingBase ==
    MergeReturnedWith("WORKING_BASE") =>
        LET N == newer_file
            O == older_file
        IN /\ DOMAIN last.merged = Keys(O) \cup Keys(N)
           /\ \A k \in Keys(O) :
                 last.merged[k] =
                    IF k[1] \in SIM_RELATED_TYPES /\ k \in Keys(N)
                    THEN N.resources[k] ELSE O.resources[k]
           /\ \A k \in Keys(N) \ Keys(O) : last.merged[k] = N.resources[k]

\* a shared key outside the allowlist keeps older's, differing, payload
C6_Witness ==
    /\ MergeReturnedWith("WORKING_BASE")
    /\ \E k \in Keys(newer_file) \cap Keys(older_file) :
          /\ k[1] \notin SIM_RELATED_TYPES
          /\ newer_file.resources[k] # older_file.resources[k]
          /\ last.merged[k] = older_file.resources[k]

TakenFrom(side) == {k \in DOMAIN last.source : last.source[k] = side}

\* C7: provenance counts are exact for every strategy and every pair of
\* inputs -- resources_from_newer is the number of output keys taken from
\* newer, resources_from_older the number taken from older, both are
\* non-negative, and their sum is resources_total, the number of keys of
\* the merged container.
C7_ProvenanceCounts ==
    MergeReturned =>
        /\ last.result.resources_from_newer = Cardinality(TakenFrom("newer"))
        /\ last.result.resources_from_older = Cardinality(TakenFrom("older"))
        /\ last.result.resources_from_newer >= 0
        /\ last.result.resources_from_older >= 0
        /\ last.result.resources_from_newer + last.result.resources_from_older
              = last.result.resources_total
        /\ last.result.resources_total = Cardinality(DOMAIN last.merged)

\* the key set the claim expects when only the keys of the caller's subset
\* are added
ExpectedKeys ==
    LET only_older == Keys(older_file) \ Keys(newer_file)
    IN Keys(newer_file) \cup
          (IF last.args.resources_to_add.given
           THEN last.args.resources_to_add.keys \cap only_older
           ELSE only_older)

C9_InputsNotMutated ==
    [][last'.op = "merge" => /\ newer_file' = newer_file
                             /\ older_file' = older_file]_vars

\* a merge returned a container that differs from the newer input
C9_Witness ==
    /\ MergeReturned
    /\ last.merged # newer_file.resources

\* C10: a load failure is fatal before merge logic runs -- if no load_files
\* call has completed, or the most recent one raised, merge raises 'Files
\* not loaded' and writes no output.
C10_LoadFailureFatal ==
    (last.op = "merge" /\ load_state # "completed") =>
        /\ last.outcome = "raised"
        /\ last.exc = "ValueError: Files not loaded"
        /\ last.written = None

\* the counts and the total of a merge call describe its merged container
CountsDescribe(call) ==
    /\ call.result.resources_from_newer
          = Cardinality({k \in DOMAIN call.source : call.source[k] = "newer"})
    /\ call.result.resources_from_older
          = Cardinality({k \in DOMAIN call.source : call.source[k] = "older"})
    /\ call.result.resources_from_newer + call.result.resources_from_older
          = call.result.resources_total
    /\ call.result.resources_total = Cardinality(DOMAIN call.merged)

\* C11: a save failure is a result, not an exception -- for every strategy,
\* when writing the merged container fails merge raises nothing and returns
\* a MergeResult with success = false and a non-empty errors list whose
\* counts and total describe the merged container; and success = false
\* comes from a failed save only, never from a conflict of contents.
C11_SaveFailureIsResult ==
    [][ /\ PipelineMergeSaveFails =>
              /\ last'.outcome = "returned"
              /\ ~last'.result.success
              /\ last'.result.errors # <<>>
              /\ CountsDescribe(last')
        /\ (last'.op = "merge" /\ last'.outcome = "returned" /\ ~last'.result.success)
              => PipelineMergeSaveFails ]_vars

\* the last call was a decoder call that has returned or raised
DecoderCalled == codec_last.op \in {"_decompress_refpack", "_decompress"}

\* C12: for every input carrying a RefPack signature and every target size
\* the decoder returns a buffer and never raises, and a stream that ends
\* right after a control byte, before its operand or literal bytes, decodes
\* to a buffer shorter than the target size.
C12_RefPackNeverRaises ==
    DecoderCalled =>
        /\ ~codec_last.raised
        /\ codec_last.file.cut =>
              Len(codec_last.file.data) < codec_last.file.target_size

\* the part of C12 the decoder does satisfy: no call raises
RefPackReturns == DecoderCalled => ~codec_last.raised

\* the last call was from_bytes and it returned a header
HeaderParsed == codec_last.op = "from_bytes" /\ ~codec_last.raised

\* C13: for a major-version-2 header the parsed index size is the field at
\* offset 68 when that is non-zero and the field at offset 44 when it is 0,
\* and the parsed index offset is the field at offset 64 when non-zero and
\* the field at offset 40 otherwise.
C13_HeaderAlternateFields ==
    HeaderParsed =>
        \A magic \in MagicTags, index_entry_count \in {0, 1},
           alt_offset \in AlternateOffsets, alt_size \in AlternateSizes,
           primary_offset \in PrimaryOffsets, primary_size \in PrimarySizes :
            Slice(file_bytes, 0, 96) =
                HeaderBuffer(magic, 2, index_entry_count, alt_offset, alt_size,
                             primary_offset, primary_size)
            => /\ codec_last.file.header.index_size =
                    (IF primary_size # 0 THEN primary_size ELSE alt_size)
               /\ codec_last.file.header.index_offset =
                    (IF primary_offset # 0 THEN primary_offset ELSE alt_offset)

\* a version-2 header with primary index size 0 and alternate size 8 was
\* parsed, and the index size is 8
C13_Witness ==
    /\ HeaderParsed
    /\ U32(Slice(file_bytes, 4, 8)) = 2
    /\ U32(Slice(file_bytes, 68, 72)) = 0
    /\ U32(Slice(file_bytes, 44, 48)) = 8
    /\ codec_last.file.header.index_size = 8

\* the ValueErrors of the header checks and of the checks of load before it
FormatErrors ==
    {"ValueError: Header te kort", "ValueError: Ongeldig DBPF bestand",
     "ValueError: Bestand te klein",
     "ValueError: Kon gecomprimeerd bestand niet uitpakken"}

\* the input is shorter than 96 bytes or does not begin with b'DBPF'
ShortOrBadMagic ==
    Len(file_bytes) < 96 \/ SubSeq(file_bytes, 1, 4) # <<68, 66, 80, 70>>

CompleteRecords ==
    Cardinality({n \in 1..Len(container.entries) :
        Len(FlaggedIndex(container.flags, container.entries, n)) <= Len(file_bytes)})

\* _parse_index has returned for the buffer
IndexParsed == codec_last.op = "_parse_index"

\* the record the fixed layout holds in the 32 bytes from base on
FixedRecord(base) ==
    [type_id |-> UnpackId(SubSeq(file_bytes, base + 1, base + 4)),
     group_id |-> UnpackId(SubSeq(file_bytes, base + 5, base + 8)),
     instance_id |-> [i \in 1..8 |-> file_bytes[base + 17 - i]],
     offset |-> U32(SubSeq(file_bytes, base + 17, base + 20)),
     file_size |-> U32(<<file_bytes[base + 21], file_bytes[base + 22],
                         file_bytes[base + 23], file_bytes[base + 24] % 128>>),
     mem_size |-> U32(SubSeq(file_bytes, base + 25, base + 28)),
     compressed |-> file_bytes[base + 24] >= 128]

\* the records of the fixed 32-byte layout that lie wholly in the buffer,
\* at most count of them
FixedRecords ==
    LET base == IF container.flags >= 8 THEN 0
                ELSE Len(FlaggedIndexHeader(container.flags))
        room == IF Len(file_bytes) < base THEN 0 ELSE (Len(file_bytes) - base) \div 32
        n == IF container.count < room THEN container.count ELSE room
    IN [i \in 1..n |-> FixedRecord(base + 32 * (i - 1))]

\* C15 as stated: for every index buffer and declared count _parse_index
\* returns without raising, returns at most the declared count of records,
\* and when the buffer ends before that many records are complete it
\* returns exactly the records completely decoded before the cut, in order.
C15_IndexTruncation ==
    IndexParsed =>
        /\ ~codec_last.raised
        /\ Len(codec_last.file.entries) <= container.count
        /\ CompleteRecords < container.count =>
              codec_last.file.entries = SubSeq(container.entries, 1, CompleteRecords)

\* C15 amended: as above, but when the flagged layout completes no record
\* the records returned are those of the fixed 32-byte layout that lie
\* wholly in the buffer.
C15_IndexTruncationFallback ==
    IndexParsed =>
        /\ ~codec_last.raised
        /\ Len(codec_last.file.entries) <= container.count
        /\ (CompleteRecords < container.count /\ CompleteRecords > 0) =>
              codec_last.file.entries = SubSeq(container.entries, 1, CompleteRecords)
        /\ (CompleteRecords < container.count /\ CompleteRecords = 0) =>
              codec_last.file.entries = FixedRecords

\* the buffer was cut after its first record and before its second, two
\* were declared, and the first was returned
C15_Witness ==
    /\ IndexParsed
    /\ Len(container.entries) = 2
    /\ container.count = 2
    /\ CompleteRecords = 1
    /\ codec_last.file.entries = <<container.entries[1]>>

\* the keys the caller of the last merge asked to take from older
FromOlderArg ==
    IF last.args.resources_from_older.given
    THEN last.args.resources_from_older.keys
    ELSE {}

\* the keys both files hold
SharedKeys == Keys(newer_file) \cap Keys(older_file)

C17_Progress ==
    (last.op \in {"load_files", "merge"}) =>
        /\ \A i \in 1..Len(last.progress) :
              last.progress[i] = 0 - 1 \/ last.progress[i] \in 0..100
        /\ \A i \in 1..Len(last.progress), j \in 1..Len(last.progress) :
              i < j => last.progress[i] <= last.progress[j]
        /\ (last.op = "merge" /\ \E i \in 1..Len(last.progress) : last.progress[i] = 100)
              => /\ last.outcome = "returned"
                 /\ last.result.success
                 /\ last.written = last.merged

\* a merge whose save failed has reported 80 as its last percent
C17_Witness ==
    /\ MergeReturned
    /\ ~last.result.success
    /\ last.progress # <<>>
    /\ last.progress[Len(last.progress)] = 80

\* the payload sizes of a key both files hold
NewerSize(k) == DataLen(newer_file.resources[k])
OlderSize(k) == DataLen(older_file.resources[k])

\* C18: for every key of 'different' whose type is in WORLD_RELATED_TYPES,
\* SMART_MERGE takes older's version when older's payload is at least 10
\* times as large as newer's, or when newer's payload is under 2000 bytes
\* and older's is at least 5 times as large.
C18_SmartMergeWorldRule ==
    MergeReturnedWith("SMART_MERGE") =>
        \A k \in comparison.different :
            ( /\ k[1] \in WORLD_RELATED_TYPES
              /\ \/ OlderSize(k) >= 10 * NewerSize(k)
                 \/ (NewerSize(k) < 2000 /\ OlderSize(k) >= 5 * NewerSize(k)) )
            => /\ last.merged[k] = older_file.resources[k]
               /\ last.source[k] = "older"

\* C19: for every key of 'different', of any type, in WORLD_RELATED_TYPES
\* or not, SMART_MERGE takes older's version when older's payload is at
\* least 1000 bytes and newer's is smaller than 5% of older's.
C19_SmartMergeGeneralRule ==
    MergeReturnedWith("SMART_MERGE") =>
        \A k \in comparison.different :
            (OlderSize(k) >= 1000 /\ NewerSize(k) * 20 < OlderSize(k))
            => /\ last.merged[k] = older_file.resources[k]
               /\ last.source[k] = "older"

\* the last call was a load and it returned
Loaded == codec_last.op = "load" /\ ~codec_last.raised

\* C20: after a load that returns, every resource stored has a payload
\* whose length is the mem_size of its index record, whether the payload
\* was copied raw, clamped at the end of the stream, decompressed or kept
\* raw after a failed decompression.
C20_LoadedPayloadLength ==
    Loaded =>
        \A i \in 1..Len(codec_last.file.resources) :
            Len(codec_last.file.resources[i].resource.data)
                = codec_last.file.resources[i].resource.entry.mem_size

\* the decoder has run on the stream and has reached its copy command: the
\* literals before it left the output below the target size
CopyCommandDecoded ==
    /\ DecoderCalled
    /\ codec_last.op = "_decompress" => Len(file_bytes) >= 5
    /\ Len(container.prefix) < codec_last.file.target_size

\* n bytes appended one at a time, each the byte copy_offset + 1 places
\* behind the end of the output at that moment: the last copy_offset + 1
\* bytes of the output, repeated in turn
CopiedOneByOne(output, copy_offset, n) ==
    output \o [i \in 1..n |->
                 output[Len(output) - copy_offset + ((i - 1) % (copy_offset + 1))]]

\* the output before the copy: the literals before the command, then its own
BeforeCopy == container.prefix \o container.literals

\* C21: for a control byte of each of the three bit-packings that carry a
\* copy, the decoder appends the literalCount raw bytes of the command and
\* then exactly copyLength bytes, each copied from copyOffset + 1 bytes
\* behind the end of the output at that moment, for every copyOffset >= 0
\* within the output so far; copyOffset = 0 repeats the last byte.
C21_RefPackCopyStep ==
    (CopyCommandDecoded /\ container.copy_offset < Len(BeforeCopy))
        => codec_last.file.data =
              CopiedOneByOne(BeforeCopy, container.copy_offset, CopyLengthOf(container))

\* the part of C21 the decoder does satisfy: the bit-packings of the control
\* bytes 0x80..0xDF, and that of 0x00..0x7F for a copy offset above 0
CopyStepButShortZero ==
    (/\ CopyCommandDecoded
     /\ container.copy_offset < Len(BeforeCopy)
     /\ container.packing = 1 => container.copy_offset > 0)
        => codec_last.file.data =
              CopiedOneByOne(BeforeCopy, container.copy_offset, CopyLengthOf(container))

\* load has returned or raised for the stream
LoadCalled == codec_last.op = "load"

\* the index of the header reaches beyond the stream
IndexOverruns ==
    \/ container.index_offset > Len(file_bytes)
    \/ container.index_offset + container.index_size > Len(file_bytes)

\* the number of index bytes that exist: from the index offset to the end
\* of the index or of the stream, whichever comes first
IndexBytesPresent ==
    IF container.index_offset >= Len(file_bytes) THEN 0
    ELSE IF container.index_offset + container.index_size > Len(file_bytes)
    THEN Len(file_bytes) - container.index_offset
    ELSE container.index_size

\* the number of records that lie wholly in those bytes when the index
\* offset is that of the index, at most the declared count
RecordsPresent ==
    LET whole == IF container.index_offset = OverrunIndexAt /\ IndexBytesPresent >= 4
                 THEN (IndexBytesPresent - 4) \div 28 ELSE 0
    IN IF container.count < whole THEN container.count ELSE whole

\* the resources loaded are those of the records present, in order
LoadedRecordsPresent ==
    /\ Len(codec_last.file.resources) = RecordsPresent
    /\ \A i \in 1..RecordsPresent :
          /\ codec_last.file.resources[i].key = EntryKey(OverrunRecord(i))
          /\ codec_last.file.resources[i].resource.data
                = SubSeq(file_bytes, OverrunDataAt + 2 * i - 1, OverrunDataAt + 2 * i)

\* C22 as stated: for a stream with a valid header whose index offset or
\* index offset + size reaches beyond the stream, load does not raise and
\* loads from the index bytes that exist (possibly none).
C22_IndexOverrunTruncated ==
    (LoadCalled /\ IndexOverruns) =>
        /\ ~codec_last.raised
        /\ LoadedRecordsPresent

\* C22 amended: load does so when the index offset lies within the stream
\* or at its end and the index offset + size reaches beyond it; when the
\* index offset itself lies beyond the end of the stream load raises
\* ValueError and no resource is loaded.
C22_IndexOverrunTruncatedOrInvalid ==
    (LoadCalled /\ IndexOverruns) =>
        IF container.index_offset > Len(file_bytes)
        THEN /\ codec_last.raised
             /\ codec_last.exc = "ValueError: Ongeldige index offset"
             /\ codec_last.file.resources = <<>>
        ELSE /\ ~codec_last.raised
             /\ LoadedRecordsPresent

\* an index cut after its first record was loaded: the header declares the
\* whole index and two records, and the first was loaded
C22_Witness ==
    /\ LoadCalled
    /\ ~codec_last.raised
    /\ container.index_offset = OverrunIndexAt
    /\ container.index_offset + container.index_size > Len(file_bytes)
    /\ container.count = 2
    /\ Len(codec_last.file.resources) = 1

\* the payload a record of the kind has once loaded: the bytes stored, but
\* the decoded byte for a RefPack stream
KindData(kind, i) ==
    IF kind = "refpack" THEN <<64 + i>> ELSE KindPayload(kind, i)

\* the records of the stream whose offset lies inside it
KeptRecords == {i \in 1..Len(container.kinds) : container.kinds[i] \in StoredKinds}

\* C23: one bad record never aborts the load -- a record whose offset is at
\* or past the end of the stream is skipped and a record whose
\* decompression fails keeps its raw bytes; load does not raise and every
\* other record of the index is loaded under its key with its own data.
C23_BadRecordSkipped ==
    LoadCalled =>
        /\ ~codec_last.raised
        /\ Len(codec_last.file.resources) = Cardinality(KeptRecords)
        /\ \A i \in KeptRecords :
              \E j \in 1..Len(codec_last.file.resources) :
                 /\ codec_last.file.resources[j].key
                       = Key(TYPE_SIMDATA, ZeroGroup, Instance(i))
                 /\ codec_last.file.resources[j].resource.data
                       = KindData(container.kinds[i], i)

\* a stream of a record past the end, one whose decompression fails and a
\* sound compressed one was loaded: two resources
C23_Witness ==
    /\ LoadCalled
    /\ container.kinds = <<"past end", "zlib", "refpack">>
    /\ Len(codec_last.file.resources) = 2
    /\ codec_last.file.resources[1].resource.data = <<120, 156, 1, 2, 3>>
    /\ codec_last.file.resources[2].resource.data = <<67>>

\* save has written the bytes of the container
Saved == codec_last.op = "save" /\ ~codec_last.raised

\* the u32 stored in the bytes written, at the 0-based position
SavedField(at) == U32(SubSeq(file_bytes, at + 1, at + 4))

RECURSIVE PayloadLenBefore(_)
\* the sum of the payload lengths of the first n resources of the container
PayloadLenBefore(n) ==
    IF n = 0 THEN 0
    ELSE PayloadLenBefore(n - 1) + Len(container.resources[n].resource.data)

\* where the i-th index record begins in the bytes written
SavedRecordAt(i) ==
    96 + PayloadLenBefore(Len(container.resources)) + 4 + 28 * (i - 1)

\* C24: in the bytes save writes for a container of n resources the i-th
\* index record (map iteration order) carries the key of the i-th
\* resource, offset = 96 + the payload lengths of the earlier resources
\* and size in the container = size in memory = the length of its
\* payload, the bytes at [offset, offset + size) are that payload, the
\* index starts at 96 + the total payload length, right behind the data,
\* and the header holds n, that start and the length of the index as its
\* count, index offset and index size.
C24_SaveLayout ==
    Saved =>
        LET n == Len(container.resources)
            index_at == 96 + PayloadLenBefore(n)
        IN /\ Len(file_bytes) = index_at + 4 + 28 * n
           /\ SavedField(36) = n
           /\ SavedField(64) = index_at
           /\ SavedField(44) = Len(file_bytes) - index_at
           /\ \E h \in {DBPFHeader_from_bytes(SubSeq(file_bytes, 1, 96))} :
                 /\ ~h.raised
                 /\ h.header.index_entry_count = n
                 /\ h.header.index_offset = index_at
                 /\ h.header.index_size = 4 + 28 * n
           /\ \A i \in 1..n :
                 LET at == SavedRecordAt(i)
                     payload == container.resources[i].resource.data
                     key == container.resources[i].key
                 IN /\ UnpackId(SubSeq(file_bytes, at + 1, at + 4)) = key[1]
                    /\ UnpackId(SubSeq(file_bytes, at + 5, at + 8)) = key[2]
                    /\ UnpackId(SubSeq(file_bytes, at + 9, at + 12))
                          = SubSeq(key[3], 1, 4)
                    /\ UnpackId(SubSeq(file_bytes, at + 13, at + 16))
                          = SubSeq(key[3], 5, 8)
                    /\ SavedField(at + 16) = 96 + PayloadLenBefore(i - 1)
                    /\ SavedField(at + 20) = Len(payload)
                    /\ SavedField(at + 24) = Len(payload)
                    /\ SubSeq(file_bytes, SavedField(at + 16) + 1,
                              SavedField(at + 16) + SavedField(at + 20)) = payload

\* a container of two resources with payloads of different lengths was saved
C24_Witness ==
    /\ Saved
    /\ Len(container.resources) = 2
    /\ Len(container.resources[1].resource.data) = 2
    /\ Len(container.resources[2].resource.data) = 1
    /\ SavedField(SavedRecordAt(2) + 16) = 98

\* a header was serialized, by to_bytes or by save
HeaderSerialized == codec_last.op = "to_bytes" \/ (codec_last.op = "save" /\ ~codec_last.raised)

\* the 96 bytes the serialization begins with
HeaderBytes == Slice(codec_last.file.bytes, 0, 96)

\* the bytes of the header of no field of the format: all but the magic tag,
\* the versions (0..11), index type, count, alternate offset and size
\* (32..47), index minor version (60..63), primary offset and size (64..71)
\* and the byte pair at 80
ReservedAt == (13..32) \cup (49..60) \cup (73..80) \cup (83..96)

\* the header is of the canonical major-version-2 layout
Canonical(bytes) ==
    /\ Len(bytes) = 96
    /\ SubSeq(bytes, 1, 4) = <<68, 66, 80, 70>>
    /\ U32(SubSeq(bytes, 5, 8)) = 2
    /\ \A i \in ReservedAt : bytes[i] = 0
    /\ SubSeq(bytes, 81, 82) = <<255, 255>>

\* C25: for every header value, whatever major version it was parsed from,
\* serialization emits exactly 96 bytes in the major-version-2 layout with
\* the reserved fields zero except the byte pair 0xFFFF at offset 80.
C25_HeaderCanonical ==
    HeaderSerialized =>
        /\ codec_last.op = "to_bytes" => Len(codec_last.file.bytes) = 96
        /\ Canonical(HeaderBytes)

\* the part of C25 the code does satisfy: the header save writes
SaveHeaderCanonical ==
    (codec_last.op = "save" /\ ~codec_last.raised) => Canonical(HeaderBytes)

\* _build_index has returned the bytes for the list of entries
IndexBuilt == codec_last.op \in {"_build_index", "_parse_index"} /\ file_bytes # <<>>

\* the entries of the list that have the compressed flag, among the first n
CompressedAmong(n) == {i \in 1..n : container.entries[i].compressed}

\* where the i-th record begins in the index built when every record
\* before it takes 28 bytes, and 4 more if it has the compressed flag
BuiltRecordAt(i) == 4 + 28 * (i - 1) + 4 * Cardinality(CompressedAmong(i - 1))

\* C26 as stated: for every list of n entries, whatever their compressed
\* flags, the index built is a flags word of 0 followed by exactly 28
\* bytes per record, 4 + 28 n bytes in all, and the top bit of every size
\* field is clear.
C26_BuildIndexSimplest ==
    IndexBuilt =>
        LET n == Len(container.entries)
        IN /\ SubSeq(file_bytes, 1, 4) = <<0, 0, 0, 0>>
           /\ Len(file_bytes) = 4 + 28 * n
           /\ \A i \in 1..n : file_bytes[4 + 28 * (i - 1) + 24] < 128

\* C26 amended: the index built is a flags word of 0 followed by one record
\* per entry, with no field left out; a record of an entry without the
\* compressed flag takes 28 bytes and the top bit of its size field is
\* clear; a record of an entry with the compressed flag has that bit set
\* and takes 32 bytes, the size following once more; so a list without
\* compressed flags, as save builds it, gives 4 + 28 n bytes.
C26_BuildIndexPerFlag ==
    IndexBuilt =>
        LET n == Len(container.entries)
        IN /\ SubSeq(file_bytes, 1, 4) = <<0, 0, 0, 0>>
           /\ Len(file_bytes) = BuiltRecordAt(n + 1)
           /\ CompressedAmong(n) = {} => Len(file_bytes) = 4 + 28 * n
           /\ \A i \in 1..n :
                 /\ (file_bytes[BuiltRecordAt(i) + 24] >= 128)
                       <=> container.entries[i].compressed
                 /\ container.entries[i].compressed =>
                       SubSeq(file_bytes, BuiltRecordAt(i) + 29, BuiltRecordAt(i) + 32)
                          = pack_u32(container.entries[i].file_size)

\* a list of an entry with the compressed flag and one without was built
C26_Witness ==
    /\ IndexBuilt
    /\ Len(container.entries) = 2
    /\ container.entries[1].compressed
    /\ ~container.entries[2].compressed
    /\ Len(file_bytes) = 64

\* C27: after any sequence of load_files calls on one merger, calls that
\* raise on the first or on the second file included, whenever merge
\* passes its 'files loaded' guard the stored comparison is
\* compare_files(newer_file, older_file) of the containers stored, so every
\* key of its 'different' set is in both stored containers and every key
\* of 'only_in_file2' is in the stored older container.
C27_ComparisonConsistent ==
    FilesLoaded =>
        /\ comparison = compare_files(newer_file, older_file)
        /\ comparison.different \subseteq (Keys(newer_file) \cap Keys(older_file))
        /\ comparison.only_in_file2 \subseteq Keys(older_file)

\* the part of C27 the code does satisfy: the comparison is that of the
\* stored containers as long as no load_files call has raised after one
\* that completed
ComparisonOfCompletedLoad ==
    (FilesLoaded /\ load_state = "completed")
        => comparison = compare_files(newer_file, older_file)

\* the keys of both stored containers whose payloads differ
CommonDifferent ==
    {k \in SharedKeys : newer_file.resources[k] # older_file.resources[k]}

\* the keys of both stored containers the last merge took from older
TakenFromOlder == {k \in SharedKeys : last.source[k] = "older"}

\* C28: for any two containers the set of keys SMART_MERGE takes from older
\* is a subset of the set PREFER_LARGER takes from older, which is a
\* subset of the keys of both whose payloads differ, and
\* NEWER_BASE_ADD_MISSING takes the empty set; a merge under one of the
\* three takes exactly its set from older among the keys of both.
C28_NestedSubstitution ==
    FilesLoaded =>
        LET smart == UseOlderKeys("SMART_MERGE", newer_file, older_file, comparison)
            larger == UseOlderKeys("PREFER_LARGER", newer_file, older_file, comparison)
            none == UseOlderKeys("NEWER_BASE_ADD_MISSING", newer_file, older_file,
                                 comparison)
        IN /\ smart \subseteq larger
           /\ larger \subseteq CommonDifferent
           /\ larger = {k \in CommonDifferent : OlderSize(k) > NewerSize(k)}
           /\ none = {}
           /\ MergeReturnedWith("SMART_MERGE") => TakenFromOlder = smart
           /\ MergeReturnedWith("PREFER_LARGER") => TakenFromOlder = larger
           /\ MergeReturnedWith("NEWER_BASE_ADD_MISSING") => TakenFromOlder = {}

\* a SMART_MERGE merge took a key from older that PREFER_LARGER takes too
C28_Witness ==
    /\ FilesLoaded
    /\ MergeReturnedWith("SMART_MERGE")
    /\ TakenFromOlder # {}
    /\ TakenFromOlder = _get_larger_resources(newer_file, older_file, comparison)

\* _parse_index ran on the index _build_index wrote for the list of entries
IndexParsedBack == codec_last.op = "_parse_index" /\ file_bytes = _build_index(container.entries)

\* C29: index round trip -- for any list of records whose type and group
\* fit in 32 bits, instance in 64 bits and sizes in 31 bits, parsing the
\* index built by buildIndex with the list's length as count yields
\* records with identical type, group, instance, offset, sizes and
\* compressed flag, in the same order.
C29_IndexRoundTrip ==
    IndexParsedBack =>
        /\ ~codec_last.raised
        /\ Len(codec_last.file.entries) = container.count
        /\ \A i \in 1..container.count :
             LET parsed == codec_last.file.entries[i]
                 given == container.entries[i]
             IN /\ parsed.type_id = given.type_id
                /\ parsed.group_id = given.group_id
                /\ parsed.instance_id = given.instance_id
                /\ parsed.offset = given.offset
                /\ parsed.file_size = given.file_size
                /\ parsed.mem_size = given.mem_size
                /\ parsed.compressed = given.compressed

\* a list of two records was parsed back: a compressed one of the largest
\* sizes followed by a plain one of another key
C29_Witness ==
    /\ IndexParsedBack
    /\ container.count = 2
    /\ container.entries[1].compressed
    /\ container.entries[1].file_size = MaxSize31
    /\ container.entries[1].mem_size = MaxSize31
    /\ ~container.entries[2].compressed
    /\ container.entries[2].type_id # container.entries[1].type_id
    /\ Len(codec_last.file.entries) = 2

\* the merge that last ran had as newer file the output of a merge with the
\* same older file and the same strategy
MergedAgain ==
    /\ container # None
    /\ MergeReturned
    /\ last.args.strategy = container.written_by.strategy

\* C30: merge is idempotent against the same older snapshot -- for every
\* strategy S, without caller overrides, and any containers N and O, merging
\* the merged container M of merge(N, O, S) as the newer input with O again
\* under S yields a container with the same key set as M and, for every
\* key, the same payload.
C30_MergeIdempotent ==
    MergedAgain =>
        /\ DOMAIN last.merged = DOMAIN container.merged
        /\ \A k \in DOMAIN container.merged : last.merged[k] = container.merged[k]

\* a second SMART_MERGE ran on an output in which one key came from older
\* and another key kept newer's differing payload
C30_Witness ==
    /\ MergedAgain
    /\ last.args.strategy = "SMART_MERGE"
    /\ \E k \in DOMAIN container.source : container.source[k] = "older"
    /\ comparison.different # {}
====
